---- MODULE Spec2Model ----
(***************************************************************************)
(* A model of the pylearn-parsimony optimisation layer: the explicit       *)
(* algorithms of parsimony/algorithms.py (FISTA, CONESTA,                  *)
(* ExcessiveGapMethod, Bisection), the objectives they are run on          *)
(* (parsimony/functions) and the proximal operators (penalties.py and      *)
(* multiblock/prox_op.py, prox_ops.py).                                    *)
(*                                                                         *)
(* Real numbers are rationals <<n, d>> with d > 0 in lowest terms, kept to *)
(* a finite precision.                                                     *)
(* Coefficient vectors of the solvers have length one (p = 1), so that     *)
(* maths.norm is the absolute value; the proximal operators act on         *)
(* sequences.                                                              *)
(***************************************************************************)
EXTENDS Integers, Sequences, FiniteSets, TLC

\* Python's None.  It is written as the empty tuple: the attributes that
\* may be None are otherwise numbers <<n, d>> or non-empty lists.
None == <<>>

(***************************************************************************)
(* Rational arithmetic, standing for the float arithmetic of the source.   *)
(***************************************************************************)
IAbs(n) == IF n < 0 THEN -n ELSE n
IMin(a, b) == IF b < a THEN b ELSE a
IMax(a, b) == IF a < b THEN b ELSE a

RECURSIVE GCD(_, _)
GCD(a, b) == IF b = 0 THEN a ELSE GCD(b, a % b)

\* The precision numbers are kept to: a result whose numerator or
\* denominator exceeds it is rounded, both being divided by the same
\* factor, as float arithmetic rounds to its mantissa.
Precision == 4096

Rat(n, d) ==
    LET s == IF d < 0 THEN -1 ELSE 1
        g == GCD(IAbs(n), IAbs(d))
        nn == (s * n) \div g
        dd == (s * d) \div g
        m == IMax(IAbs(nn), dd)
    IN  IF m <= Precision THEN <<nn, dd>>
        ELSE LET k == (m + Precision - 1) \div Precision
                 n2 == nn \div k
                 d2 == IMax(1, dd \div k)
                 h == GCD(IAbs(n2), d2)
             IN  <<n2 \div h, d2 \div h>>

Int2R(n) == <<n, 1>>
RZero == <<0, 1>>
ROne == <<1, 1>>
RAdd(a, b) == Rat(a[1] * b[2] + b[1] * a[2], a[2] * b[2])
RSub(a, b) == Rat(a[1] * b[2] - b[1] * a[2], a[2] * b[2])
RMul(a, b) == Rat(a[1] * b[1], a[2] * b[2])
RDiv(a, b) == Rat(a[1] * b[2], a[2] * b[1])
RNeg(a) == <<-a[1], a[2]>>
RLt(a, b) == a[1] * b[2] < b[1] * a[2]
RLe(a, b) == a[1] * b[2] <= b[1] * a[2]
RAbs(a) == <<IAbs(a[1]), a[2]>>
RMin(a, b) == IF RLt(b, a) THEN b ELSE a
RMax(a, b) == IF RLt(a, b) THEN b ELSE a

\* The integer square root of v >= 0, searched between lo and hi.
RECURSIVE ISqrt(_, _, _)
ISqrt(v, lo, hi) ==
    IF lo >= hi THEN lo
    ELSE LET mid == (lo + hi + 1) \div 2
         IN  IF mid * mid <= v THEN ISqrt(v, mid, hi)
             ELSE ISqrt(v, lo, mid - 1)

\* np.sqrt of a >= 0, rounded down.
RSqrt(a) ==
    IF a[1] = 0 THEN RZero
    ELSE LET S == ISqrt(1073741824 \div (a[1] * a[2]), 0, 32768)
         IN  Rat(ISqrt(a[1] * a[2] * S * S, 0, 46340), a[2] * S)

\* maths.sign / np.sign: -1, 0 or 1.
sign(a) == IF a[1] > 0 THEN 1 ELSE IF a[1] < 0 THEN -1 ELSE 0

\* maths.norm of a vector of length one.
norm(a) == RAbs(a)

\* consts.TOLERANCE, the package-wide tolerance.
TOLERANCE == <<1, 64>>

RECURSIVE SumSeq(_)
SumSeq(q) == IF q = <<>> THEN RZero ELSE RAdd(q[1], SumSeq(Tail(q)))

(***************************************************************************)
(* Objectives.  An objective is a record                                   *)
(*   [cls, X, y, k, l, g, A, mu]                                           *)
(* cls is its class; X, y, k the ridge regression data and constant; l the *)
(* L1 constant; g, A, mu the constant, the linear operator (one 1-by-1     *)
(* block of weight A, or None) and the smoothing constant of its Nesterov  *)
(* term.                                                                   *)
(***************************************************************************)

\* The interfaces each class of the source inherits.
Interfaces(cls) ==
    CASE cls = "RR_L1_TV" ->
            {"CompositeFunction", "Function", "Gradient",
             "LipschitzContinuousGradient", "NesterovFunction",
             "ProximalOperator", "Continuation", "DualFunction",
             "StronglyConvex"}
      [] cls = "CombinedFunction" ->
            {"CompositeFunction", "Function", "Gradient", "ProximalOperator",
             "StepSize"}
      [] cls = "RR_SmoothedL1TV" ->
            {"CompositeFunction", "Function", "LipschitzContinuousGradient",
             "NesterovFunction", "GradientMap", "DualFunction",
             "StronglyConvex"}
      [] cls = "GroupLassoOverlap" ->
            {"AtomicFunction", "Function", "NesterovFunction", "Gradient",
             "LipschitzContinuousGradient"}
      [] cls = "F" -> {"Function"}
      [] cls = "penalties.L1" ->
            {"AtomicFunction", "Function", "Penalty", "Constraint",
             "ProximalOperator", "ProjectionOperator"}
      [] cls \in {"penalties.L2", "penalties.ZeroFunction"} ->
            {"AtomicFunction", "Function", "Gradient", "Penalty",
             "Constraint", "ProximalOperator", "ProjectionOperator"}
      [] cls = "AnonymousClass" -> {}

\* isinstance(function, interface)
isinstance(function, interface) == interface \in Interfaces(function.cls)

\* A check that one interface of the list satisfies.
check_compatibility_some(function, interfaces) ==
    \E interface \in interfaces : isinstance(function, interface)

\* BaseAlgorithm.check_compatibility: TRUE when it returns, FALSE when it
\* raises ValueError.
check_compatibility(function, interfaces) ==
    \A interface \in interfaces : isinstance(function, interface)

\* RidgeRegression (parsimony.functions.losses) for p = n = 1.
rr_f(fn, beta) ==
    LET r == RSub(RMul(Int2R(fn.X), beta), Int2R(fn.y))
    IN  RAdd(RMul(<<1, 2>>, RMul(r, r)),
             RMul(<<fn.k, 2>>, RMul(beta, beta)))
rr_grad(fn, beta) ==
    RAdd(RMul(Int2R(fn.X), RSub(RMul(Int2R(fn.X), beta), Int2R(fn.y))),
         RMul(Int2R(fn.k), beta))
rr_L(fn) == Int2R(fn.X * fn.X + fn.k)

\* NesterovFunction.get_mu
get_mu(fn) == fn.mu

\* A set_mu that stores nothing.
set_mu_ignored(fn, mu) == fn

\* NesterovFunction.set_mu: the objective after the call (the old mu is
\* get_mu of the objective before it).
set_mu(fn, mu) == [fn EXCEPT !.mu = mu]

\* GroupLassoOverlap.project for one block of length one.
project(a) == IF RLt(ROne, RAbs(a)) THEN RDiv(a, RAbs(a)) ELSE a

\* NesterovFunction.alpha
alpha(fn, beta) ==
    project(RDiv(RMul(Int2R(fn.A[1]), beta), get_mu(fn)))

\* NesterovFunction.Aa
Aa(fn, a) == RMul(Int2R(fn.A[1]), a)

\* NesterovFunction.grad
tv_grad(fn, beta) ==
    IF RLt(Int2R(fn.g), TOLERANCE) THEN RZero
    ELSE RMul(Int2R(fn.g), Aa(fn, alpha(fn, beta)))

\* GroupLassoOverlap.lambda_max
lambda_max(fn) == Int2R(fn.A[1] * fn.A[1])

\* GroupLassoOverlap.L
tv_L(fn) ==
    IF RLt(Int2R(fn.g), TOLERANCE) THEN RZero
    ELSE RDiv(RMul(Int2R(fn.g), lambda_max(fn)), fn.mu)

\* GroupLassoOverlap.M
tv_M(fn) == <<1, 2>>

\* GroupLassoOverlap.f
tv_f(fn, beta) ==
    IF RLt(Int2R(fn.g), TOLERANCE) THEN RZero
    ELSE RMul(Int2R(fn.g), norm(RMul(Int2R(fn.A[1]), beta)))

\* RR_L1_TV.L
L(fn) == RAdd(rr_L(fn), tv_L(fn))

\* RR_L1_TV.grad
grad(fn, beta) == RAdd(rr_grad(fn, beta), tv_grad(fn, beta))

\* RR_L1_TV.__init__: the objective.  A is stored as it is given.
RR_L1_TV_init(X, y, k, l, g, A, mu) ==
    [cls |-> "RR_L1_TV", X |-> X, y |-> y, k |-> k, l |-> l, g |-> g,
     A |-> A, mu |-> mu]

\* NesterovFunction.A() returns None: len(A) and A[0] raise TypeError.
A_raises(fn) == fn.A = None

\* function.L() and function.grad(beta) raise: the smoothed part reads A
\* unless its weight is below TOLERANCE.
L_raises(fn) == A_raises(fn) /\ ~RLt(Int2R(fn.g), TOLERANCE)

\* LinearRegressionL1L2TV.__init__: the estimator, or the TypeError raised.
LinearRegressionL1L2TV_init(l1, l2, tv, A, mu) ==
    IF A = None THEN [cls |-> "TypeError"]
    ELSE [cls |-> "LinearRegressionL1L2TV", l1 |-> l1, l2 |-> l2, tv |-> tv,
          A |-> A, mu |-> mu]

\* LinearRegressionL1L2TV.fit, lines 308-321: the objective the solver is
\* run on.
LinearRegressionL1L2TV_function(self, X, y) ==
    set_mu(RR_L1_TV_init(X, y, self.l2, self.l1, self.tv, self.A, RZero),
           self.mu)

(***************************************************************************)
(* parsimony/functions/penalties.py.  A penalty is a record                *)
(* [l, c, penalty_start]; vectors are sequences of rationals.              *)
(***************************************************************************)
\* One entry of (np.abs(beta_) > l) * (beta_ - l * np.sign(beta_ - l)).
L1_prox_entry(b, l) ==
    IF RLt(l, RAbs(b))
    THEN RSub(b, RMul(l, Int2R(sign(RSub(b, l)))))
    ELSE RZero

\* penalties.L1.prox
L1_prox(self, beta, factor) ==
    LET l == RMul(self.l, factor)
        ps == IF self.penalty_start > 0
              THEN IMin(self.penalty_start, Len(beta)) ELSE 0
    IN  SubSeq(beta, 1, ps)
          \o [j \in 1..(Len(beta) - ps) |-> L1_prox_entry(beta[ps + j], l)]

\* penalties.L1.f for a vector of length one and c = 0.
l1_f(fn, beta) == RMul(Int2R(fn.l), RAbs(beta))

\* RR_L1_TV.prox: the L1 penalty's proximal operator.
prox(fn, beta, factor) ==
    L1_prox([l |-> Int2R(fn.l), c |-> RZero, penalty_start |-> 0],
            <<beta>>, factor)[1]

\* RR_L1_TV.f
f(fn, beta) == RAdd(RAdd(rr_f(fn, beta), l1_f(fn, beta)), tv_f(fn, beta))

(***************************************************************************)
(* parsimony/functions/penalties.py: L1, L2 and ZeroFunction on vectors,   *)
(* and the CombinedFunction of objectives/functions.py that holds them.    *)
(* A penalty object is a record [cls, l, c, penalty_start].                *)
(***************************************************************************)
\* beta[self.penalty_start:, :]
Penalised(self, beta) ==
    SubSeq(beta, IMin(IMax(self.penalty_start, 0), Len(beta)) + 1, Len(beta))

\* beta[:self.penalty_start, :]
Excepted(self, beta) ==
    SubSeq(beta, 1, IMin(IMax(self.penalty_start, 0), Len(beta)))

\* penalties.L1.f
L1_f(self, beta) ==
    RMul(self.l,
         RSub(SumSeq([j \in 1..Len(Penalised(self, beta)) |->
                         RAbs(Penalised(self, beta)[j])]),
              self.c))

\* penalties.L2.__init__
L2_init(a) ==
    [cls |-> "penalties.L2", l |-> a.l, c |-> a.c,
     penalty_start |-> a.penalty_start]

\* penalties.L2.f
L2_f(self, beta) ==
    RMul(self.l,
         RSub(SumSeq([j \in 1..Len(Penalised(self, beta)) |->
                         RMul(Penalised(self, beta)[j],
                              Penalised(self, beta)[j])]),
              self.c))

\* A prox that rescales the excepted entries too.
L2_prox_everywhere(self, beta, factor) ==
    [j \in 1..Len(beta) |->
        RDiv(beta[j],
             RAdd(ROne, RMul(Int2R(2), RMul(self.l, factor))))]

\* penalties.L2.prox
L2_prox(self, beta, factor) ==
    Excepted(self, beta)
      \o [j \in 1..Len(Penalised(self, beta)) |->
             RDiv(Penalised(self, beta)[j],
                  RAdd(ROne, RMul(Int2R(2), RMul(self.l, factor))))]

\* penalties.ZeroFunction.__init__
ZeroFunction_init(a) ==
    [cls |-> "penalties.ZeroFunction", l |-> a.l, c |-> a.c,
     penalty_start |-> a.penalty_start]

\* penalties.ZeroFunction.f
ZeroFunction_f(self, x) == RZero

\* A prox that scales by the factor.
ZeroFunction_prox_scaled(self, x, factor) ==
    [j \in 1..Len(x) |-> RMul(x[j], factor)]

\* penalties.ZeroFunction.prox
ZeroFunction_prox(self, x, factor) == x

\* ProxOp.prox of multiblock, the base class.
ProxOp_prox(self, x) == x

\* p.f(x) for a term p of a CombinedFunction.
Penalty_f(p, x) ==
    CASE p.cls = "penalties.L1" -> L1_f(p, x)
      [] p.cls = "penalties.L2" -> L2_f(p, x)
      [] p.cls = "penalties.ZeroFunction" -> ZeroFunction_f(p, x)

\* CombinedFunction.__init__
CombinedFunction_init ==
    [cls |-> "CombinedFunction", _f |-> <<>>, _p |-> <<>>,
     _prox |-> ZeroFunction_init([l |-> ROne, c |-> RZero,
                                  penalty_start |-> 0])]

\* CombinedFunction.add_function raises ValueError unless this holds.
add_function_accepts(function_) == isinstance(function_, "Gradient")

\* CombinedFunction.add_function
add_function(self, function_) ==
    IF add_function_accepts(function_)
    THEN [self EXCEPT !._f = Append(@, function_)]
    ELSE self

\* CombinedFunction.add_penalty raises ValueError unless this holds.
add_penalty_accepts(penalty, proximal_operator) ==
    IF proximal_operator THEN isinstance(penalty, "ProximalOperator")
    ELSE isinstance(penalty, "Gradient")

\* An add_penalty that keeps the operator it replaces as a penalty.
add_penalty_keeping(self, penalty, proximal_operator) ==
    IF ~add_penalty_accepts(penalty, proximal_operator) THEN self
    ELSE IF proximal_operator
    THEN [self EXCEPT !._prox = penalty, !._p = Append(@, self._prox)]
    ELSE [self EXCEPT !._p = Append(@, penalty)]

\* CombinedFunction.add_penalty
add_penalty(self, penalty, proximal_operator) ==
    IF ~add_penalty_accepts(penalty, proximal_operator) THEN self
    ELSE IF proximal_operator THEN [self EXCEPT !._prox = penalty]
    ELSE [self EXCEPT !._p = Append(@, penalty)]

\* CombinedFunction.f
CombinedFunction_f(self, x) ==
    RAdd(RAdd(SumSeq([j \in 1..Len(self._f) |-> Penalty_f(self._f[j], x)]),
              SumSeq([j \in 1..Len(self._p) |-> Penalty_f(self._p[j], x)])),
         Penalty_f(self._prox, x))

\* CombinedFunction.prox: self._prox.prox(x, factor=factor)
CombinedFunction_prox(self, x, factor) ==
    CASE self._prox.cls = "penalties.L1" -> L1_prox(self._prox, x, factor)
      [] self._prox.cls = "penalties.L2" -> L2_prox(self._prox, x, factor)
      [] self._prox.cls = "penalties.ZeroFunction" ->
            ZeroFunction_prox(self._prox, x, factor)

(***************************************************************************)
(* parsimony/algorithms.py: FISTA.                                         *)
(***************************************************************************)
FISTA_INTERFACES ==
    {"Gradient", "LipschitzContinuousGradient", "ProximalOperator"}

\* FISTA.__init__
FISTA_init(a) ==
    [cls |-> "FISTA", step |-> a.step, output |-> a.output, eps |-> a.eps,
     max_iter |-> a.max_iter, min_iter |-> a.min_iter]

\* BaseAlgorithm.set_params(step=..., eps=...) on a FISTA object.
FISTA_set_params(self, step, eps) == [self EXCEPT !.step = step, !.eps = eps]

\* FISTA.__call__, lines 373-380: the object after the step size is fixed.
FISTA_enter_self(self, function) ==
    IF self.step = None
    THEN [self EXCEPT !.step = RDiv(ROne, L(function))]
    ELSE self

\* FISTA.__call__, lines 373-380: the locals before the loop.  i counts the
\* iterations made, brk says that the loop was left by its break.
FISTA_enter_frame(beta) ==
    [i |-> 0, z |-> beta, betanew |-> beta, betaold |-> beta, brk |-> FALSE,
     f |-> <<>>]

\* An extrapolation point without momentum.
FISTA_z_plain(i, betanew, betaold) == betanew

\* The extrapolation point of iteration i.
FISTA_z(i, betanew, betaold) ==
    RAdd(betanew, RMul(Rat(i - 2, i + 1), RSub(betanew, betaold)))

\* A stopping test that does not wait for min_iter.
FISTA_stop_early(self, i, betanew, z) ==
    RLt(RMul(RDiv(ROne, self.step), norm(RSub(betanew, z))), self.eps)

\* The stopping test of iteration i.
FISTA_stop(self, i, betanew, z) ==
    /\ RLt(RMul(RDiv(ROne, self.step), norm(RSub(betanew, z))), self.eps)
    /\ i >= self.min_iter

\* FISTA.__call__, lines 381-396: one iteration of the loop.
FISTA_body(self, function, fr) ==
    LET i == fr.i + 1
        z == FISTA_z(i, fr.betanew, fr.betaold)
        betanew == prox(function,
                        RSub(z, RMul(self.step, grad(function, z))),
                        self.step)
    IN  [i |-> i, z |-> z, betanew |-> betanew, betaold |-> fr.betanew,
         brk |-> FISTA_stop(self, i, betanew, z),
         f |-> IF self.output THEN Append(fr.f, f(function, betanew))
               ELSE fr.f]

\* A loop that only its break ends.
FISTA_over_break(self, fr) == fr.brk

\* The loop is over: xrange is exhausted or the break was taken.
FISTA_over(self, fr) == fr.brk \/ fr.i >= self.max_iter

\* The whole loop, from the frame fr on.
RECURSIVE FISTA_loop(_, _, _)
FISTA_loop(self, function, fr) ==
    IF FISTA_over(self, fr) THEN fr
    ELSE FISTA_loop(self, function, FISTA_body(self, function, fr))

\* A complete call on a compatible objective: the object and the locals
\* at the return.
FISTA_run(self, function, beta) ==
    LET s == FISTA_enter_self(self, function)
    IN  [self |-> s, fr |-> FISTA_loop(s, function, FISTA_enter_frame(beta))]

\* The value FISTA.__call__ returns, lines 398-402.
FISTA_result(self, fr) ==
    IF self.output THEN <<fr.betanew, [f |-> fr.f]>> ELSE fr.betanew

(***************************************************************************)
(* The Continuation interface of RR_L1_TV.  mu_opt and eps_opt set mu to   *)
(* one around their call of tv.L() and put the old value back; each        *)
(* returns [val, fn]: the value and the objective after the call.          *)
(***************************************************************************)
gM(fn) == RMul(Int2R(fn.g), tv_M(fn))

\* A gA2 that leaves the objective's mu at 1.0.
gA2_at_one_unrestored(fn) ==
    [val |-> tv_L(set_mu(fn, ROne)), fn |-> set_mu(fn, ROne)]

\* The lines "old_mu = self.tv.set_mu(1.0); gA2 = self.tv.L();
\* self.tv.set_mu(old_mu)": gA2 and the objective afterwards.
gA2_at_one(fn) ==
    LET old_mu == get_mu(fn)
        fn1 == set_mu(fn, ROne)
    IN  [val |-> tv_L(fn1), fn |-> set_mu(fn1, old_mu)]

\* RR_L1_TV.mu_opt
mu_opt(fn, eps) ==
    LET r == gA2_at_one(fn)
        gA2 == r.val
        Lg == rr_L(r.fn)
        g_M == gM(fn)
        p == RMul(g_M, gA2)
    IN  [val |-> RDiv(RAdd(RNeg(p),
                           RSqrt(RAdd(RMul(p, p),
                                      RMul(RMul(p, Lg), eps)))),
                      RMul(g_M, Lg)),
         fn |-> r.fn]

\* RR_L1_TV.eps_opt
eps_opt(fn, mu) ==
    LET r == gA2_at_one(fn)
        gA2 == r.val
        Lg == rr_L(r.fn)
        g_M == gM(fn)
    IN  [val |-> RDiv(RAdd(RMul(RMul(Int2R(2), RMul(g_M, gA2)), mu),
                           RMul(RMul(g_M, Lg), RMul(mu, mu))),
                      gA2),
         fn |-> r.fn]

\* RR_L1_TV.eps_max
eps_max(fn, mu) == RMul(mu, gM(fn))

\* GroupLassoOverlap.estimate_mu
estimate_mu(fn, beta) == RAbs(RMul(Int2R(fn.A[1]), beta))

(***************************************************************************)
(* parsimony/algorithms.py: CONESTA.                                       *)
(***************************************************************************)
CONESTA_INTERFACES ==
    {"NesterovFunction", "Continuation", "LipschitzContinuousGradient",
     "ProximalOperator", "Gradient", "DualFunction"}

\* CONESTA.__init__
CONESTA_init(a) ==
    [cls |-> "CONESTA", mu_start |-> a.mu_start, mu_min |-> a.mu_min,
     tau |-> a.tau, dynamic |-> a.dynamic,
     continuations |-> a.continuations, output |-> a.output,
     eps |-> a.eps, max_iter |-> a.max_iter, min_iter |-> a.min_iter,
     FISTA |-> FISTA_init([step |-> None, output |-> a.output,
                           eps |-> a.eps, max_iter |-> a.max_iter,
                           min_iter |-> a.min_iter])]

Last(seq) == seq[Len(seq)]

\* A sequence of n copies of v: [v] * n.
Copies(v, n) == [j \in 1..n |-> v]

\* CONESTA.__call__, lines 456-476: the locals before the loop and the
\* objective, whose mu has been set to mu_min and then to mu[0].
\* i counts the continuations made, runs the inner FISTA runs, done says
\* that the loop was left.
CONESTA_enter(self, function, beta) ==
    LET mu0 == IF self.mu_start # None THEN self.mu_start
               ELSE RMul(<<9, 10>>, estimate_mu(function, beta))
        fn1 == set_mu(function, self.mu_min)
        tmin == RDiv(ROne, L(fn1))
        fn2 == set_mu(fn1, mu0)
        max_eps == eps_max(fn2, mu0)
        e == eps_opt(fn2, mu0)
    IN  [fr |-> [mu |-> <<mu0>>, tmin |-> tmin, max_eps |-> max_eps,
                 G |-> RMin(max_eps, e.val), i |-> 0, beta |-> beta,
                 stop |-> FALSE, done |-> FALSE, runs |-> 0,
                 f |-> <<>>, Gval |-> <<>>,
                 mu_at_run |-> <<>>, step_at_run |-> <<>>, G_new |-> None,
                 mu_log |-> <<>>],
         fn |-> e.fn]

\* CONESTA.__call__, lines 480-488: the inner FISTA run.
CONESTA_fista_run(self_FISTA, function, fr, tnew, e) ==
    [tnew |-> tnew, fn |-> e.fn,
     inner |-> FISTA_run(FISTA_set_params(self_FISTA, tnew,
                                          RMin(fr.max_eps, e.val)),
                         e.fn, fr.beta)]

CONESTA_fista(self, function, fr) ==
    CONESTA_fista_run(self.FISTA, function, fr, RDiv(ROne, L(function)),
                      eps_opt(function, Last(fr.mu)))

\* The ISTA step of line 494, made with the objective's mu at mu_min.
CONESTA_beta_tilde(fnA, beta, tmin) ==
    prox(fnA, RSub(beta, RMul(tmin, grad(fnA, beta))), tmin)

\* The stopping test of lines 498-499.
CONESTA_stop(self, i, tmin, beta, beta_tilde) ==
    \/ RLt(RMul(RDiv(ROne, tmin), norm(RSub(beta, beta_tilde))), self.eps)
    \/ i >= self.continuations

\* CONESTA.__call__, lines 490-503: the exploratory step at mu_min.
CONESTA_explore_at(self, fn, fr, beta, mu_min, tmin) ==
    [mu_min |-> mu_min, tmin |-> tmin,
     stop |-> CONESTA_stop(self, fr.i, tmin, beta,
                           CONESTA_beta_tilde(set_mu(fn, mu_min), beta,
                                              tmin)),
     fn |-> set_mu(set_mu(fn, mu_min), Last(fr.mu))]

CONESTA_explore(self, fn, fr, tnew, beta) ==
    CONESTA_explore_at(self, fn, fr, beta, RMin(self.mu_min, Last(fr.mu)),
                       RMin(fr.tmin, tnew))

\* CONESTA.__call__, lines 507-520: the new gap estimate.
CONESTA_G_dynamic(self, G, G_new) ==
    IF RLt(G_new, G) THEN G_new ELSE RMul(self.tau, G)

\* A G that is the smaller of the observed gap and tau * G.
CONESTA_G_minimum(self, G, gap) ==
    IF self.dynamic THEN RMin(RAbs(gap), RMul(self.tau, G))
    ELSE RMul(self.tau, G)

\* A G that takes the computed gap as it is.
CONESTA_G_signed(self, G, gap) ==
    IF self.dynamic THEN CONESTA_G_dynamic(self, G, gap)
    ELSE RMul(self.tau, G)

\* CONESTA.__call__, lines 507-520: the new G.
CONESTA_G(self, G, gap) ==
    IF self.dynamic THEN CONESTA_G_dynamic(self, G, RAbs(gap))
    ELSE RMul(self.tau, G)

\* The test of line 531.
CONESTA_break(G, mu, stop) ==
    (RLe(G, TOLERANCE) /\ RLe(Last(mu), TOLERANCE)) \/ stop

\* A next mu that is appended to the schedule but not given to the
\* objective.
CONESTA_next_mu_unset(self, fr, n_fval, mu_min, mu_new, fn) ==
    [mu_min |-> RMin(mu_min, mu_new),
     mu |-> IF self.output
            THEN fr.mu \o Copies(RMax(RMin(mu_min, mu_new), mu_new), n_fval)
            ELSE Append(fr.mu, RMax(RMin(mu_min, mu_new), mu_new)),
     fn |-> fn]

\* CONESTA.__call__, lines 534-542: the next mu.
CONESTA_next_mu(self, fr, n_fval, mu_min, mu_new, fn) ==
    [mu_min |-> RMin(mu_min, mu_new),
     mu |-> IF self.output
            THEN fr.mu \o Copies(RMax(RMin(mu_min, mu_new), mu_new), n_fval)
            ELSE Append(fr.mu, RMax(RMin(mu_min, mu_new), mu_new)),
     fn |-> set_mu(fn, mu_new)]

CONESTA_continue(self, fr, n_fval, mu_min, m) ==
    CONESTA_next_mu(self, fr, n_fval, mu_min, RMin(Last(fr.mu), m.val),
                    m.fn)

\* The locals that every pass updates.
CONESTA_pass(self, fr, a, x, G, mu_at) ==
    [fr EXCEPT !.tmin = x.tmin, !.G = G, !.beta = a.inner.fr.betanew,
               !.stop = x.stop, !.runs = fr.runs + 1,
               !.f = IF self.output THEN fr.f \o a.inner.fr.f ELSE fr.f,
               !.Gval = IF self.output THEN Append(fr.Gval, G) ELSE fr.Gval,
               !.mu_at_run = Append(fr.mu_at_run, mu_at),
               !.mu_log = Append(fr.mu_log, [run |-> get_mu(a.fn),
                                             explored |-> get_mu(x.fn)]),
               !.step_at_run = Append(fr.step_at_run, a.tnew)]

CONESTA_end(self, fr, a, x, c, brk) ==
    IF brk
    THEN [self |-> [self EXCEPT !.mu_min = x.mu_min, !.FISTA = a.inner.self],
          fr |-> [fr EXCEPT !.done = TRUE],
          fn |-> x.fn]
    ELSE [self |-> [self EXCEPT !.mu_min = c.mu_min, !.FISTA = a.inner.self],
          fr |-> [fr EXCEPT !.mu = c.mu, !.i = fr.i + 1],
          fn |-> c.fn]

CONESTA_body_3(self, fr0, fr, a, x, G) ==
    CONESTA_end(self, fr, a, x,
                CONESTA_continue(self, fr0, Len(a.inner.fr.f), x.mu_min,
                                 mu_opt(x.fn, G)),
                CONESTA_break(G, fr0.mu, x.stop))

CONESTA_body_2(self, fr, a, x, G, mu_at) ==
    CONESTA_body_3(self, fr, CONESTA_pass(self, fr, a, x, G, mu_at), a, x, G)

CONESTA_body_1(self, fr, gap, a, mu_at) ==
    CONESTA_body_2(self, fr, a,
                   CONESTA_explore(self, a.fn, fr, a.tnew,
                                   a.inner.fr.betanew),
                   CONESTA_G(self, fr.G, gap), mu_at)

\* CONESTA.__call__, lines 478-542: one pass of the loop.  gap is the value
\* function.gap(beta) returns in this pass.  The result is the algorithm
\* object, the locals and the objective after the pass.
CONESTA_body(self, function, fr, gap) ==
    CONESTA_body_1(self, fr, gap, CONESTA_fista(self, function, fr),
                   get_mu(function))

\* The value CONESTA.__call__ returns, lines 544-548.
CONESTA_result(self, fr) ==
    IF self.output
    THEN <<fr.beta, [f |-> fr.f, mu |-> fr.mu, gap |-> fr.Gval]>>
    ELSE fr.beta

(***************************************************************************)
(* parsimony/algorithms.py: Bisection.  The function is a record           *)
(* [cls, s, c] standing for f(x) = s * (x - c), monotone with root c.      *)
(***************************************************************************)
Bisection_INTERFACES == {"Function"}

\* Bisection.__init__
Bisection_init(a) ==
    [cls |-> "Bisection", eps |-> a.eps, max_iter |-> a.max_iter,
     min_iter |-> a.min_iter]

\* function.f(x) of the function searched for a root.
F_f(function, x) == RMul(Int2R(function.s), RSub(x, function.c))

\* A first bracket that takes the ends in the order given.
Bisection_bracket_as_given(x) ==
    IF x # None THEN [low |-> x[1], high |-> x[2]]
    ELSE [low |-> RZero, high |-> ROne]

\* Bisection.__call__, lines 714-719: the first bracket.
Bisection_bracket(x) ==
    IF x # None
    THEN [low |-> RMin(x[1], x[2]), high |-> RMax(x[1], x[2])]
    ELSE [low |-> RZero, high |-> ROne]

\* The locals before the first loop.  phase is the loop at work, i its
\* counter, f_low and f_high are unbound until the first loop assigns them.
Bisection_enter(x) ==
    [phase |-> "expand", i |-> 0, low |-> Bisection_bracket(x).low,
     high |-> Bisection_bracket(x).high, f_low |-> None, f_high |-> None,
     f_mid |-> None]

Pow2(n) == 2 ^ n

\* Bisection.__call__, lines 723-731: one iteration of the first loop.
Bisection_expand(function, b) ==
    IF sign(F_f(function, b.low)) # sign(F_f(function, b.high))
    THEN [b EXCEPT !.phase = "bisect", !.i = 0,
                   !.f_low = F_f(function, b.low),
                   !.f_high = F_f(function, b.high)]
    ELSE [b EXCEPT !.i = b.i + 1,
                   !.f_low = F_f(function, b.low),
                   !.f_high = F_f(function, b.high),
                   !.low = RSub(b.low, RMul(RAbs(b.low), Int2R(Pow2(b.i)))),
                   !.high = RAdd(b.high,
                                 RMul(RAbs(b.high), Int2R(Pow2(b.i))))]

\* The midpoint (low + high) / 2.0.
Bisection_mid(low, high) == RDiv(RAdd(low, high), Int2R(2))

\* Lines 738-743: the bracket after f_mid has been compared with f_low.
Bisection_halve(b, mid, f_mid) ==
    IF sign(f_mid) = sign(b.f_low)
    THEN [b EXCEPT !.low = mid, !.f_low = f_mid, !.f_mid = f_mid,
                   !.i = b.i + 1]
    ELSE [b EXCEPT !.high = mid, !.f_high = f_mid, !.f_mid = f_mid,
                   !.i = b.i + 1]

\* Lines 745-746: the break of the second loop.
Bisection_close(self, b) ==
    IF RLe(RAbs(RSub(b.high, b.low)), self.eps)
    THEN [b EXCEPT !.phase = "done"] ELSE b

\* Bisection.__call__, lines 734-746: one iteration of the second loop.
Bisection_bisect(self, function, b) ==
    Bisection_close(self,
                    Bisection_halve(b, Bisection_mid(b.low, b.high),
                                    F_f(function,
                                        Bisection_mid(b.low, b.high))))

\* The loop at work has used up xrange(self.max_iter).
Bisection_exhausted(self, b) == b.i >= self.max_iter

\* One step of the call: an iteration of the loop at work, or the passage
\* from the first loop to the second when the first is exhausted.
Bisection_step(self, function, b) ==
    IF b.phase = "expand"
    THEN IF Bisection_exhausted(self, b)
         THEN [b EXCEPT !.phase = "bisect", !.i = 0]
         ELSE Bisection_expand(function, b)
    ELSE Bisection_bisect(self, function, b)

Bisection_over(self, b) ==
    b.phase = "done" \/ (b.phase = "bisect" /\ Bisection_exhausted(self, b))

\* The value Bisection.__call__ returns, line 748.
Bisection_result(b) == Bisection_mid(b.low, b.high)

\* A complete call.
RECURSIVE Bisection_loop(_, _, _)
Bisection_loop(self, function, b) ==
    IF Bisection_over(self, b) THEN b
    ELSE Bisection_loop(self, function, Bisection_step(self, function, b))

Bisection_run(self, function, x) ==
    Bisection_result(Bisection_loop(self, function, Bisection_enter(x)))

(***************************************************************************)
(* parsimony/functions/objectives/functions.py: RR_SmoothedL1TV, for one   *)
(* coefficient.  The objective is a record [cls, X, y, k, h] whose h is    *)
(* the smoothed part [l, A, mu] with four blocks in A.                     *)
(***************************************************************************)
\* The number of blocks of h.A(), as RR_SmoothedL1TV.V and betahat index it.
NBlocks == 4

\* function.h.set_mu(mu): NesterovFunction.set_mu on the smoothed part.
h_set_mu(fn, mu) == [fn EXCEPT !.h.mu = mu]

\* function.h.get_mu()
h_get_mu(fn) == fn.h.mu

\* function.h.project, block by block.
h_project(a) == [j \in 1..Len(a) |-> project(a[j])]

\* function.h.alpha(beta): NesterovFunction.alpha over the blocks of A.
h_alpha(fn, beta) ==
    h_project([j \in 1..Len(fn.h.A) |->
                   RDiv(RMul(Int2R(fn.h.A[j]), beta), h_get_mu(fn))])

\* function.h.M()
h_M(fn) == Rat(Len(fn.h.A), 2)

\* function.h.lambda_max()
h_lambda_max(fn) ==
    SumSeq([j \in 1..Len(fn.h.A) |-> Int2R(fn.h.A[j] * fn.h.A[j])])

\* function.h.f(beta)
h_f(fn, beta) ==
    RMul(Int2R(fn.h.l),
         SumSeq([j \in 1..Len(fn.h.A) |->
                     RAbs(RMul(Int2R(fn.h.A[j]), beta))]))

\* RR_SmoothedL1TV.parameter: the strong convexity of the ridge regression.
sm_parameter(fn) == Int2R(fn.X * fn.X + fn.k)

\* RR_SmoothedL1TV.L
sm_L(fn) == RDiv(h_lambda_max(fn), sm_parameter(fn))

\* RR_SmoothedL1TV.f
sm_f(fn, beta) == RAdd(rr_f(fn, beta), h_f(fn, beta))

\* RR_SmoothedL1TV.V
sm_V(fn, u, beta, L_) ==
    h_project([j \in 1..Len(u) |->
                   RAdd(u[j],
                        RMul(RDiv(ROne, RMax(L_, TOLERANCE)),
                             RMul(Int2R(fn.h.A[j]), beta)))])

\* RR_SmoothedL1TV.betahat, lines 935-941: (X'y - A'alpha) / k.
sm_Xty_grad(fn, alpha_) ==
    RDiv(RSub(Int2R(fn.X * fn.y),
              SumSeq([j \in 1..NBlocks |->
                          RMul(Int2R(fn.h.A[j]), alpha_[j])])),
         Int2R(fn.k))

\* RR_SmoothedL1TV.betahat
sm_betahat_of(fn, v) ==
    RSub(v, RMul(Rat(fn.X, fn.X * fn.X + fn.k), RMul(Int2R(fn.X), v)))

sm_betahat(fn, alpha_) == sm_betahat_of(fn, sm_Xty_grad(fn, alpha_))

(***************************************************************************)
(* parsimony/algorithms.py: ExcessiveGapMethod.                            *)
(***************************************************************************)
ExcessiveGapMethod_INTERFACES ==
    {"NesterovFunction", "LipschitzContinuousGradient", "GradientMap",
     "DualFunction"}

\* ExcessiveGapMethod.__init__
ExcessiveGapMethod_init(a) ==
    [cls |-> "ExcessiveGapMethod", output |-> a.output, eps |-> a.eps,
     max_iter |-> a.max_iter, min_iter |-> a.min_iter]

\* hasattr(function, name)
hasattr(function, name) == name \in DOMAIN function

Zeros(n) == [j \in 1..n |-> RZero]

\* ExcessiveGapMethod.__call__, lines 612-630, given L and beta0: the locals
\* before the loop and the objective, whose mu is now the list mu.
EGM_enter_at(function, L_, beta_start) ==
    [fr |-> [k |-> 0, u |-> Zeros(Len(function.h.A)), L |-> L_,
             mu |-> <<RMul(Int2R(2), L_)>>, beta |-> beta_start,
             beta_start |-> beta_start,
             alpha |-> sm_V(function, Zeros(Len(function.h.A)),
                            beta_start, L_),
             f |-> <<>>, ubound |-> <<>>, done |-> FALSE, iters |-> 0,
             mu_at_alpha |-> None],
     fn |-> h_set_mu(function, <<RMul(Int2R(2), L_)>>)]

EGM_enter(function) ==
    EGM_enter_at(function, sm_L(function),
                 sm_betahat(function, Zeros(Len(function.h.A))))

\* A tau of 2 / (k + 2), which is 1 in iteration 0.
EGM_tau_early(k) == Rat(2, k + 2)

\* Line 636: tau of iteration k.
EGM_tau(k) == Rat(2, k + 3)

\* Lines 640-642: u blended from alpha and alpha_hat.
EGM_u(tau, alpha_, alpha_hat) ==
    [j \in 1..Len(alpha_hat) |->
         RAdd(RMul(RSub(ROne, tau), alpha_[j]), RMul(tau, alpha_hat[j]))]

\* Lines 644-647 given u and betahat(u): mu, beta and alpha of the iteration.
EGM_update(function, b, tau, u, betahat) ==
    [b EXCEPT !.u = u,
              !.mu = Append(b.mu, RMul(RSub(ROne, tau), b.mu[b.k + 1])),
              !.beta = RAdd(RMul(RSub(ROne, tau), b.beta),
                            RMul(tau, betahat)),
              !.alpha = sm_V(function, u, betahat, b.L),
              !.mu_at_alpha = h_get_mu(function),
              !.iters = b.iters + 1]

\* A stopping test that looks at the iteration count only.
EGM_close_counting(self, function, b, ulim) ==
    [b EXCEPT !.f = IF self.output
                    THEN Append(b.f, sm_f(h_set_mu(function, RZero), b.beta))
                    ELSE b.f,
              !.ubound = IF self.output THEN Append(b.ubound, ulim)
                         ELSE b.ubound,
              !.done = b.k >= self.max_iter,
              !.k = IF b.k >= self.max_iter THEN b.k ELSE b.k + 1]

\* Lines 649-658 given ulim: the output and the stopping test.
EGM_close(self, function, b, ulim) ==
    [b EXCEPT !.f = IF self.output
                    THEN Append(b.f, sm_f(h_set_mu(function, RZero), b.beta))
                    ELSE b.f,
              !.ubound = IF self.output THEN Append(b.ubound, ulim)
                         ELSE b.ubound,
              !.done = RLt(ulim, self.eps) \/ b.k >= self.max_iter,
              !.k = IF RLt(ulim, self.eps) \/ b.k >= self.max_iter
                    THEN b.k ELSE b.k + 1]

\* Lines 652-655: "mu_old = function.h.get_mu(); function.h.set_mu(0.0);
\* f.append(function.f(beta)); function.h.set_mu(mu_old)": the objective
\* afterwards.
EGM_f_at_zero(self, function) ==
    IF self.output
    THEN h_set_mu(h_set_mu(function, RZero), h_get_mu(function))
    ELSE function

EGM_body_2(self, function, b) ==
    EGM_close(self, function, b, RMul(b.mu[b.k + 2], h_M(function)))

EGM_body_1(self, function, b, tau, u) ==
    EGM_body_2(self, function,
               EGM_update(function, b, tau, u, sm_betahat(function, u)))

\* ExcessiveGapMethod.__call__, lines 634-661: one iteration of the loop,
\* on the objective with mu set to mu[k]; the output branch sets mu to 0.0
\* and restores it.
EGM_body(self, function, b) ==
    EGM_body_1(self, function, b, EGM_tau(b.k),
               EGM_u(EGM_tau(b.k), b.alpha, h_alpha(function, b.beta)))

\* The value ExcessiveGapMethod.__call__ returns.
EGM_result(self, b) ==
    IF self.output
    THEN <<b.beta, [f |-> b.f, mu |-> b.mu, upper_bound |-> b.ubound,
                    beta_start |-> b.beta_start]>>
    ELSE b.beta

(***************************************************************************)
(* multiblock/prox_op.py and multiblock/prox_ops.py: the L1 operators.     *)
(* An operator object is a record [cls, parameter]; vectors are sequences  *)
(* of numbers, and a number may be NaN, which x / 0.0 yields.              *)
(***************************************************************************)
NaN == <<0, 0>>

\* x / n for arrays: 0/0 is nan and anything compared with nan is False.
DivOrNaN(a, n) == IF n = RZero \/ n = NaN \/ a = NaN THEN NaN ELSE RDiv(a, n)

\* multiblock.utils.norm: the 2-norm.
norm2(x) ==
    IF \E j \in 1..Len(x) : x[j] = NaN THEN NaN
    ELSE RSqrt(SumSeq([j \in 1..Len(x) |-> RMul(x[j], x[j])]))

\* One entry of "np.absolute(x, x); x -= l; x[x < 0] = 0".
Clip(v, l) ==
    IF v = NaN THEN NaN
    ELSE IF RLt(RSub(RAbs(v), l), RZero) THEN RZero ELSE RSub(RAbs(v), l)

\* One entry of "sign = np.sign(x); ...; x = np.multiply(sign, x)".
Shrink(v, l) ==
    IF v = NaN THEN NaN ELSE RMul(Int2R(sign(v)), Clip(v, l))

\* ProxOp.__init__ and L1.__init__
ProxOp_L1_init(cls, parameter) == [cls |-> cls, parameter |-> parameter]

\* prox_op.L1.prox: "xorig / normalise(xorig)" with the default normaliser.
Normalised(x) == [j \in 1..Len(x) |-> DivOrNaN(x[j], norm2(x))]

\* L1.prox, lines 47-56 (prox_op.py) and 47-59 (prox_ops.py): the locals
\* before the loop.
ProxOp_enter(self, x, index, allow_empty) ==
    [xorig |-> x, lorig |-> self.parameter[index], l |-> self.parameter[index],
     allow_empty |-> allow_empty, x |-> x, warn |-> FALSE, passes |-> 0,
     done |-> FALSE, index |-> index, error |-> ""]

\* prox_ops.L1.prox, lines 47-50, called without an index ("index=None"):
\* the threshold is the list self.parameter itself.  index 0 stands for
\* None (the indices of the model start at 1).
ProxOp_enter_default(self, x, allow_empty) ==
    [xorig |-> x, lorig |-> self.parameter, l |-> self.parameter,
     allow_empty |-> allow_empty, x |-> x, warn |-> FALSE, passes |-> 0,
     done |-> FALSE, index |-> 0, error |-> ""]

\* The number "x -= l" subtracts: a list of one number broadcasts as that
\* number.
ProxOp_l(b) == IF b.index = 0 THEN b.l[1] ELSE b.l

\* The end of a pass: the break, or the threshold reduced by 5 %.
ProxOp_test(b) ==
    IF (norm2(b.x) # NaN /\ RLt(TOLERANCE, norm2(b.x))) \/ b.allow_empty
    THEN [b EXCEPT !.done = TRUE, !.passes = b.passes + 1]
    ELSE IF b.index = 0
    THEN \* "l *= 0.95" on a list: TypeError
         [b EXCEPT !.warn = TRUE, !.error = "TypeError",
                   !.passes = b.passes + 1]
    ELSE [b EXCEPT !.warn = TRUE, !.l = RMul(b.l, <<19, 20>>),
                   !.passes = b.passes + 1]

\* prox_op.L1.prox, lines 58-73: one pass of the loop.
prox_op_L1_pass(b) ==
    ProxOp_test([b EXCEPT !.x = [j \in 1..Len(b.xorig) |->
                                     Shrink(Normalised(b.xorig)[j], b.l)]])

\* prox_ops.L1.prox, lines 61-75: one pass of the loop.  x is xorig, and
\* the operations on x in place leave the clipped values in xorig.
prox_ops_L1_pass(b) ==
    ProxOp_test([b EXCEPT !.x = [j \in 1..Len(b.xorig) |->
                                     Shrink(b.xorig[j], ProxOp_l(b))],
                          !.xorig = [j \in 1..Len(b.xorig) |->
                                         Clip(b.xorig[j], ProxOp_l(b))]])

\* multiblock.utils.norm1: the 1-norm.
norm1(x) ==
    IF \E j \in 1..Len(x) : x[j] = NaN THEN NaN
    ELSE SumSeq([j \in 1..Len(x) |-> RAbs(x[j])])

\* np.absolute(x).max()
MaxAbs(x) ==
    IF \E j \in 1..Len(x) : x[j] = NaN THEN NaN
    ELSE CHOOSE m \in {RAbs(x[j]) : j \in 1..Len(x)} :
             \A j \in 1..Len(x) : RLe(RAbs(x[j]), m)

\* multiblock.utils.MAX_ITER
MAX_ITER == 6

\* (maxl + minl) / 2.0
Midpoint(b) == RDiv(RAdd(b.maxl, b.minl), Int2R(2))

\* prox_op.L1_binsearch.prox, lines 94-116: the locals before the loop;
\* search tells whether norm1(x) > s.
L1_binsearch_enter(self, x, index) ==
    IF RLt(self.parameter[index], norm1(x))
    THEN [s |-> self.parameter[index], search |-> TRUE, x |-> Normalised(x),
          minl |-> RZero, maxl |-> MaxAbs(Normalised(x)),
          midv |-> RDiv(MaxAbs(Normalised(x)), Int2R(2)), it |-> 0]
    ELSE [s |-> self.parameter[index], search |-> FALSE, x |-> x,
          minl |-> RZero, maxl |-> RZero, midv |-> RZero, it |-> 0]

\* norm1(op.prox(x, 0, allow_empty = True)) with op.parameter[0] = midl
L1_binsearch_midv(b, midl) ==
    norm1(prox_op_L1_pass(
              ProxOp_enter(ProxOp_L1_init("prox_op.L1", <<midl>>), b.x, 1,
                           TRUE)).x)

\* The test of the while loop, line 118.
L1_binsearch_searching(b) ==
    /\ ~RLt(RAbs(RSub(b.s, b.midv)), TOLERANCE)
    /\ b.it <= MAX_ITER

\* One value of midv and the bracket it leaves, lines 122-125.
L1_binsearch_narrow(b, midl, midv) ==
    [b EXCEPT !.midv = midv,
              !.maxl = IF RLt(midv, b.s) THEN midl ELSE b.maxl,
              !.minl = IF RLt(b.s, midv) THEN midl ELSE b.minl,
              !.it = b.it + 1]

\* The body of the while loop, lines 119-127.
L1_binsearch_body(b) ==
    L1_binsearch_narrow(b, Midpoint(b), L1_binsearch_midv(b, Midpoint(b)))

\* Lines 129-131: "op.parameter[0] = (maxl + minl) / 2.0" and the locals
\* of "op.prox(x, 0)"; s and it are kept beside them.
L1_binsearch_final(b) ==
    [s |-> b.s, search |-> TRUE, it |-> b.it] @@
    ProxOp_enter(ProxOp_L1_init("prox_op.L1", <<Midpoint(b)>>), b.x, 1, FALSE)

\* float("-Inf"), which L0_by_count writes over the entries it has taken.
MinusInf == <<-1, 0>>

\* a < b for numbers and -inf
LtInf(a, b) == b # MinusInf /\ (a = MinusInf \/ RLt(a, b))

\* np.argmax(cp): the first index of the largest entry; a nan is the
\* largest entry.
ArgMax(cp) ==
    IF \E j \in 1..Len(cp) : cp[j] = NaN
    THEN CHOOSE j \in 1..Len(cp) :
             cp[j] = NaN /\ \A i \in 1..(j - 1) : cp[i] # NaN
    ELSE CHOOSE j \in 1..Len(cp) :
             /\ \A i \in 1..Len(cp) : ~LtInf(cp[j], cp[i])
             /\ \A i \in 1..(j - 1) : LtInf(cp[i], cp[j])

\* L0_by_count.prox, lines 216-224: the indices taken in target_num rounds
\* of "idx = np.argmax(cp); ind[i] = idx; cp[idx] = minf".
RECURSIVE L0_by_count_ind(_, _)
L0_by_count_ind(cp, n) ==
    IF n = 0 THEN <<>>
    ELSE <<ArgMax(cp)>> \o
         L0_by_count_ind([cp EXCEPT ![ArgMax(cp)] = MinusInf], n - 1)

\* L0_by_count.prox, lines 226-233: "l = abs(x[ind[-1]])" and
\* "x[np.absolute(x) < l] = 0" on the normalised x; a comparison with nan
\* is False.
L0_by_count_cut(x, ind) ==
    [j \in 1..Len(x) |->
        IF x[j] # NaN /\ x[Last(ind)] # NaN
           /\ RLt(RAbs(x[j]), RAbs(x[Last(ind)]))
        THEN RZero ELSE x[j]]

\* prox_op.L0_by_count.prox with the default normaliser; ind[-1] of an
\* empty ind is an IndexError.
L0_by_count_prox(self, x, index) ==
    IF IMin(self.parameter[index], Len(x)) = 0 THEN "IndexError"
    ELSE L0_by_count_cut(
             Normalised(x),
             L0_by_count_ind([j \in 1..Len(x) |->
                                  IF Normalised(x)[j] = NaN THEN NaN
                                  ELSE RAbs(Normalised(x)[j])],
                             IMin(self.parameter[index], Len(x))))

(***************************************************************************)
(* The solvers at work.  An algorithm object is constructed once and then  *)
(* called, up to MaxRuns times, each time on an objective and a start      *)
(* vector of the caller's choice.                                          *)
(***************************************************************************)
VARIABLES
    algorithm,  \* the algorithm object (its attributes)
    args,       \* the arguments it was constructed with
    function,   \* the objective of the current call
    beta0,      \* the start vector of the current call
    pc,         \* "idle", the running algorithm's name, "returned", "raised"
    fr,         \* the locals of the running call
    result,     \* the value the last call returned, or the error it raised
    calls,      \* the methods and functions called so far by this call
    runs        \* the number of calls made

vars == <<algorithm, args, function, beta0, pc, fr, result, calls, runs>>

\* Bounds of the model.
MaxRuns == 2
MaxIter == 3
MaxContinuations == 2

NoFrame == [i |-> 0]

FISTAArgs ==
    [step : {None, <<1, 4>>}, output : BOOLEAN, eps : {<<1, 8>>},
     max_iter : {1, MaxIter}, min_iter : {1, 2}]

ExcessiveGapMethodArgs ==
    [output : BOOLEAN, eps : {<<1, 8>>, <<1, 1>>}, max_iter : {1, MaxIter},
     min_iter : {1}]

BisectionArgs ==
    [eps : {<<1, 64>>, <<1, 1>>}, max_iter : {0, MaxIter}, min_iter : {1}]

CONESTAArgs ==
    [mu_start : {None, <<1, 2>>}, mu_min : {<<1, 8>>}, tau : {<<1, 2>>},
     dynamic : BOOLEAN, continuations : {0, MaxContinuations},
     output : BOOLEAN, eps : {<<1, 8>>}, max_iter : {MaxIter},
     min_iter : {1}]

\* The estimators a caller constructs.
Estimators ==
    {LinearRegressionL1L2TV_init(1, 3, 1, <<1>>, <<1, 4>>)}
      \cup {LinearRegressionL1L2TV_init(1, 3, 1, None, <<1, 4>>)}

\* An object of another class, with the attributes of an RR_L1_TV object.
Other(cls) ==
    [RR_L1_TV_init(1, 2, 1, 0, 1, <<1>>, <<1, 2>>) EXCEPT !.cls = cls]

Smoothed(cls, k, A) ==
    [cls |-> cls, X |-> 1, y |-> 2, k |-> k,
     h |-> [l |-> 1, A |-> A, mu |-> <<1, 2>>]]

\* The objectives a caller passes: RR_L1_TV objects it constructs, with
\* and without the linear operator A, the objectives of its estimators,
\* and objects of classes that lack an interface.
Objectives ==
    {RR_L1_TV_init(1, 2, 1, 0, 1, <<1>>, <<1, 2>>),
     RR_L1_TV_init(1, 2, 1, 0, 1, None, <<1, 2>>),
     RR_L1_TV_init(1, 2, 1, 0, 0, None, <<1, 2>>),
     Other("CombinedFunction"), Other("GroupLassoOverlap")}
      \cup {LinearRegressionL1L2TV_function(e, 1, 2) :
                e \in {e \in Estimators : e.cls # "TypeError"}}

\* The objectives with a strongly convex part and a smoothed part h that a
\* caller passes to the excessive gap method: RR_SmoothedL1TV objects, and
\* objects with the same methods that implement none of the interfaces.
SmoothedObjectives ==
    {Smoothed("RR_SmoothedL1TV", 1, <<1, 1, 1, 1>>),
     Smoothed("RR_SmoothedL1TV", 3, <<1, 1, 0, 0>>),
     Smoothed("AnonymousClass", 1, <<1, 1, 1, 1>>)}

\* The functions a caller passes to the bisection method, f(x) = s (x - c):
\* F objects (penalties.L1.proj) and utils.AnonymousClass(f=f) objects
\* (datasets/simulated/l1_l2.py).
BisectionFunctions ==
    [cls : {"F", "AnonymousClass"}, s : {-1, 1},
     c : {<<-1, 1>>, <<1, 4>>, <<1, 1>>, <<3, 1>>}]

BracketEnds == {<<-1, 1>>, <<0, 1>>, <<1, 1>>, <<2, 1>>}

Brackets == {None} \cup (BracketEnds \X BracketEnds)

StartVectors == {<<0, 1>>, <<1, 2>>, <<2, 1>>}

\* The values function.gap(beta) returns; float noise can make it negative.
GapValues == {<<-1, 16>>, <<1, 128>>, <<4, 1>>}

Callable == pc \in {"idle", "returned", "raised"} /\ runs < MaxRuns

\* A call that ends with an error before its loop, after the methods in
\* called were called on the objective.
Fail(function_, beta, error, called) ==
    /\ function' = function_
    /\ beta0' = beta
    /\ pc' = "raised"
    /\ fr' = NoFrame
    /\ result' = error
    /\ calls' = called
    /\ runs' = runs + 1
    /\ UNCHANGED <<algorithm, args>>

\* A call that check_compatibility ends with ValueError.
Raise(function_, beta) == Fail(function_, beta, "ValueError", {})

\* FISTA.__call__, lines 371-380.
FISTA_call(function_, beta) ==
    /\ algorithm.cls = "FISTA"
    /\ Callable
    /\ IF ~check_compatibility(function_, FISTA_INTERFACES)
       THEN Raise(function_, beta)
       ELSE IF algorithm.step = None /\ L_raises(function_)
       THEN Fail(function_, beta, "TypeError", {"L"})
       ELSE /\ algorithm' = FISTA_enter_self(algorithm, function_)
            /\ function' = function_
            /\ beta0' = beta
            /\ fr' = FISTA_enter_frame(beta)
            /\ calls' = IF algorithm.step = None THEN {"L"} ELSE {}
            /\ pc' = "FISTA"
            /\ result' = None
            /\ runs' = runs + 1
            /\ UNCHANGED args

\* FISTA.__call__, lines 381-396: one iteration.
FISTA_iterate ==
    /\ pc = "FISTA"
    /\ ~FISTA_over(algorithm, fr)
    /\ IF L_raises(function)
       THEN /\ pc' = "raised"
            /\ result' = "TypeError"
            /\ calls' = calls \cup {"grad"}
            /\ UNCHANGED fr
       ELSE /\ fr' = FISTA_body(algorithm, function, fr)
            /\ calls' = calls \cup {"grad", "prox"}
                              \cup (IF algorithm.output THEN {"f"} ELSE {})
            /\ UNCHANGED <<pc, result>>
    /\ UNCHANGED <<algorithm, args, function, beta0, runs>>

\* FISTA.__call__, lines 398-402.
FISTA_return ==
    /\ pc = "FISTA"
    /\ FISTA_over(algorithm, fr)
    /\ result' = FISTA_result(algorithm, fr)
    /\ pc' = "returned"
    /\ UNCHANGED <<algorithm, args, function, beta0, fr, calls, runs>>

\* CONESTA.__call__, lines 454-476.
CONESTA_call(function_, beta) ==
    /\ algorithm.cls = "CONESTA"
    /\ Callable
    /\ IF ~check_compatibility(function_, CONESTA_INTERFACES)
       THEN Raise(function_, beta)
       ELSE IF A_raises(function_)
       THEN IF algorithm.mu_start = None
            THEN Fail(function_, beta, "TypeError", {"estimate_mu"})
            ELSE Fail(set_mu(function_, algorithm.mu_min), beta, "TypeError",
                      IF L_raises(function_) THEN {"set_mu", "L"}
                      ELSE {"set_mu", "L", "eps_max"})
       ELSE /\ algorithm.mu_start = None => beta # RZero
            /\ LET e == CONESTA_enter(algorithm, function_, beta)
               IN  /\ function' = e.fn
                   /\ fr' = e.fr
            /\ beta0' = beta
            /\ calls' = {"set_mu", "L", "eps_max", "eps_opt"}
                        \cup (IF algorithm.mu_start = None
                              THEN {"estimate_mu"} ELSE {})
            /\ pc' = "CONESTA"
            /\ result' = None
            /\ runs' = runs + 1
            /\ UNCHANGED <<algorithm, args>>

\* CONESTA.__call__, lines 478-542: one pass of the loop.
CONESTA_iterate(gap) ==
    /\ pc = "CONESTA"
    /\ ~fr.done
    /\ LET r == CONESTA_body(algorithm, function, fr, gap)
       IN  /\ algorithm' = r.self
           /\ fr' = [r.fr EXCEPT !.G_new = IF algorithm.dynamic
                                           THEN RAbs(gap) ELSE None]
           /\ function' = r.fn
           /\ calls' = calls \cup {"L", "eps_opt", "grad", "prox", "set_mu"}
                       \cup (IF algorithm.output THEN {"f"} ELSE {})
                       \cup (IF algorithm.dynamic THEN {"gap"} ELSE {})
                       \cup (IF r.fr.done THEN {} ELSE {"mu_opt"})
    /\ UNCHANGED <<args, beta0, pc, result, runs>>

\* CONESTA.__call__, lines 544-548.
CONESTA_return ==
    /\ pc = "CONESTA"
    /\ fr.done
    /\ result' = CONESTA_result(algorithm, fr)
    /\ pc' = "returned"
    /\ UNCHANGED <<algorithm, args, function, beta0, fr, calls, runs>>

\* ExcessiveGapMethod.__call__, lines 612-632.  An objective without the
\* attribute h ends the call at line 612.
ExcessiveGapMethod_call(function_, beta) ==
    /\ algorithm.cls = "ExcessiveGapMethod"
    /\ Callable
    /\ beta0' = beta
    /\ runs' = runs + 1
    /\ IF ~hasattr(function_, "h")
       THEN /\ function' = function_
            /\ pc' = "raised"
            /\ fr' = NoFrame
            /\ result' = "AttributeError"
            /\ calls' = {}
       ELSE /\ function' = EGM_enter(function_).fn
            /\ fr' = EGM_enter(function_).fr
            /\ pc' = "ExcessiveGapMethod"
            /\ result' = None
            /\ calls' = {"h.A", "L", "h.set_mu", "betahat", "V"}
    /\ UNCHANGED <<algorithm, args>>

\* ExcessiveGapMethod.__call__, lines 634-661: one iteration.
ExcessiveGapMethod_iterate ==
    /\ pc = "ExcessiveGapMethod"
    /\ ~fr.done
    /\ fr' = EGM_body(algorithm, h_set_mu(function, fr.mu[fr.k + 1]), fr)
    /\ function' = EGM_f_at_zero(algorithm,
                                 h_set_mu(function, fr.mu[fr.k + 1]))
    /\ calls' = calls \cup {"h.set_mu", "h.alpha", "betahat", "V", "h.M"}
                      \cup (IF algorithm.output THEN {"h.get_mu", "f"}
                            ELSE {})
    /\ UNCHANGED <<algorithm, args, beta0, pc, result, runs>>

\* ExcessiveGapMethod.__call__, lines 666-671.
ExcessiveGapMethod_return ==
    /\ pc = "ExcessiveGapMethod"
    /\ fr.done
    /\ result' = EGM_result(algorithm, fr)
    /\ pc' = "returned"
    /\ UNCHANGED <<algorithm, args, function, beta0, fr, calls, runs>>

\* Bisection.__call__, lines 714-719.
Bisection_call(function_, x) ==
    /\ algorithm.cls = "Bisection"
    /\ Callable
    /\ function' = function_
    /\ beta0' = x
    /\ fr' = Bisection_enter(x)
    /\ pc' = "Bisection"
    /\ result' = None
    /\ calls' = {}
    /\ runs' = runs + 1
    /\ UNCHANGED <<algorithm, args>>

\* Bisection.__call__, lines 723-746: one iteration of the loop at work.
Bisection_iterate ==
    /\ pc = "Bisection"
    /\ ~Bisection_over(algorithm, fr)
    /\ fr' = Bisection_step(algorithm, function, fr)
    /\ calls' = IF Bisection_exhausted(algorithm, fr) THEN calls
                ELSE calls \cup {"f"}
    /\ UNCHANGED <<algorithm, args, function, beta0, pc, result, runs>>

\* Bisection.__call__, line 748.
Bisection_return ==
    /\ pc = "Bisection"
    /\ Bisection_over(algorithm, fr)
    /\ result' = Bisection_result(fr)
    /\ pc' = "returned"
    /\ UNCHANGED <<algorithm, args, function, beta0, fr, calls, runs>>

Init ==
    /\ \/ \E a \in FISTAArgs : args = a /\ algorithm = FISTA_init(a)
       \/ \E a \in CONESTAArgs : args = a /\ algorithm = CONESTA_init(a)
       \/ \E a \in ExcessiveGapMethodArgs :
              args = a /\ algorithm = ExcessiveGapMethod_init(a)
       \/ \E a \in BisectionArgs :
              args = a /\ algorithm = Bisection_init(a)
    /\ function = None
    /\ beta0 = None
    /\ pc = "idle"
    /\ fr = NoFrame
    /\ result = None
    /\ calls = {}
    /\ runs = 0

Next ==
    \/ \E fn \in Objectives, b \in StartVectors : FISTA_call(fn, b)
    \/ FISTA_iterate
    \/ FISTA_return
    \/ \E fn \in Objectives, b \in StartVectors : CONESTA_call(fn, b)
    \/ \E gap \in GapValues : CONESTA_iterate(gap)
    \/ CONESTA_return
    \/ \E fn \in SmoothedObjectives \cup Objectives :
           ExcessiveGapMethod_call(fn, None)
    \/ ExcessiveGapMethod_iterate
    \/ ExcessiveGapMethod_return
    \/ \E fn \in BisectionFunctions, x \in Brackets : Bisection_call(fn, x)
    \/ Bisection_iterate
    \/ Bisection_return

Spec == Init /\ [][Next]_vars

(***************************************************************************)
(* Properties of the solvers.                                              *)
(***************************************************************************)
\* The value a FISTA call returns when its last iterate is fr.betanew.
LastIterate ==
    IF algorithm.output THEN <<fr.betanew, [f |-> fr.f]>> ELSE fr.betanew

\* C1: a FISTA run makes at most max_iter iterations, and once it has made
\* max_iter iterations its only step is to return the last computed
\* iterate, whether or not the tolerance test was met: no error is raised.
C1_FISTA_at_most_max_iter ==
    [][algorithm.cls = "FISTA" =>
         /\ pc' = "FISTA" => fr'.i <= algorithm.max_iter
         /\ pc = "FISTA" /\ fr.i >= algorithm.max_iter =>
                /\ pc' = "returned"
                /\ result' = LastIterate
                /\ fr' = fr]_vars

\* A FISTA run that used all of its iterations without meeting the
\* tolerance and has returned.
C1_witness ==
    /\ algorithm.cls = "FISTA"
    /\ pc = "returned"
    /\ ~fr.brk
    /\ fr.i = MaxIter
    /\ result = LastIterate

\* The tolerance test of the iteration the frame is in.
ToleranceMet ==
    /\ RLt(RMul(RDiv(ROne, algorithm.step), RAbs(RSub(fr.betanew, fr.z))),
           algorithm.eps)
    /\ fr.i >= algorithm.min_iter

\* C2: a FISTA run stops on the tolerance test at the first iteration i
\* with (1/step) * ||beta_{i+1} - z|| < eps and i >= min_iter: it goes on
\* after an iteration only if the test failed there, it returns before
\* max_iter only if the test held, and so never at an i < min_iter.
C2_FISTA_stops_at_first_tolerance ==
    [][algorithm.cls = "FISTA" /\ pc = "FISTA" =>
         /\ pc' = "FISTA" /\ fr'.i = fr.i + 1 /\ fr.i >= 1 => ~ToleranceMet
         /\ pc' = "returned" /\ fr.i < algorithm.max_iter =>
                ToleranceMet /\ fr.i >= algorithm.min_iter]_vars

\* A FISTA run that stopped on the tolerance test at iteration min_iter = 2,
\* before max_iter.
C2_witness ==
    /\ algorithm.cls = "FISTA"
    /\ pc = "returned"
    /\ fr.brk
    /\ algorithm.min_iter = 2
    /\ fr.i = 2
    /\ fr.i < algorithm.max_iter

\* C3: a FISTA object constructed with step = None uses, in every call, the
\* step 1 / L of the objective of that call, and returns what a freshly
\* constructed FISTA object returns on that objective and start vector.
C3_FISTA_holds_no_state ==
    algorithm.cls = "FISTA" /\ args.step = None =>
        /\ pc = "FISTA" =>
               /\ ~L_raises(function)
               /\ algorithm.step = RDiv(ROne, L(function))
        /\ pc = "returned" =>
               /\ ~L_raises(function)
               /\ result = FISTA_result(FISTA_init(args),
                                        FISTA_run(FISTA_init(args), function,
                                                  beta0).fr)

\* C4: between its runs a CONESTA object is as it was constructed; the
\* mu_min a run starts with is the configured one.
C4_CONESTA_holds_configuration ==
    algorithm.cls = "CONESTA" /\ pc \in {"idle", "returned", "raised"} =>
        algorithm.mu_min = args.mu_min

\* The interfaces the algorithm object declares.
INTERFACES ==
    CASE algorithm.cls = "FISTA" -> FISTA_INTERFACES
      [] algorithm.cls = "CONESTA" -> CONESTA_INTERFACES
      [] algorithm.cls = "ExcessiveGapMethod" -> ExcessiveGapMethod_INTERFACES
      [] algorithm.cls = "Bisection" -> Bisection_INTERFACES

\* The objective of the call lacks one of the declared interfaces.
Incompatible == pc # "idle" /\ ~(INTERFACES \subseteq Interfaces(function.cls))

\* C5: a call of FISTA or CONESTA with an objective that lacks one of
\* their INTERFACES raises ValueError and has called no method of the
\* objective; no iteration is made.
C5_check_before_any_call ==
    algorithm.cls \in {"FISTA", "CONESTA"} /\ Incompatible =>
        /\ pc = "raised"
        /\ result = "ValueError"
        /\ calls = {}
        /\ fr = NoFrame

\* A FISTA call on a GroupLassoOverlap object, which has no proximal
\* operator, has raised ValueError.
C5_witness ==
    /\ algorithm.cls = "FISTA"
    /\ pc = "raised"
    /\ function.cls = "GroupLassoOverlap"
    /\ result = "ValueError"
    /\ calls = {}

\* C6: a call of ExcessiveGapMethod or Bisection with an objective that
\* lacks one of their INTERFACES raises an error before the first
\* iteration: it calls no method of the objective and returns nothing.
C6_interfaces_enforced ==
    algorithm.cls \in {"ExcessiveGapMethod", "Bisection"} /\ Incompatible =>
        /\ pc = "raised"
        /\ calls = {}

\* C7: an objective that needs the linear operator A cannot be constructed
\* without it, so no solver ever works on, or returns from, an objective
\* whose A is None.
C7_operator_required ==
    algorithm.cls \in {"FISTA", "CONESTA"}
      /\ pc \in {"FISTA", "CONESTA", "returned"} => function.A # None

\* C8: a CONESTA run makes at most `continuations` inner FISTA runs.
C8_CONESTA_at_most_continuations ==
    algorithm.cls = "CONESTA" /\ pc \in {"CONESTA", "returned"} =>
        fr.runs <= args.continuations

\* The function has a sign change in the bracket the call was given.
Bracketed ==
    /\ beta0 # None
    /\ sign(F_f(function, RMin(beta0[1], beta0[2])))
         # sign(F_f(function, RMax(beta0[1], beta0[2])))

\* C9: for a monotone function with a sign change in the given bracket,
\* Bisection returns r with |f(r)| <= eps, or r inside a final bracket at
\* whose ends the signs of f differ; and r is what the call returns when
\* the ends of the bracket are given in the other order.
C9_Bisection_bracket ==
    algorithm.cls = "Bisection" /\ pc = "returned" /\ Bracketed =>
        /\ \/ RLe(RAbs(F_f(function, result)), algorithm.eps)
           \/ /\ sign(F_f(function, fr.low)) # sign(F_f(function, fr.high))
              /\ RLe(fr.low, result)
              /\ RLe(result, fr.high)
        /\ result = Bisection_run(algorithm, function,
                                  <<beta0[2], beta0[1]>>)

\* A call given (high, low) that bisected MaxIter times and returned a
\* point at which |f| exceeds eps.
C9_witness ==
    /\ algorithm.cls = "Bisection"
    /\ pc = "returned"
    /\ Bracketed
    /\ RLt(beta0[2], beta0[1])
    /\ fr.i = MaxIter
    /\ RLt(algorithm.eps, RAbs(F_f(function, result)))

\* One iteration of a FISTA call was made.
FISTA_iterated ==
    /\ algorithm.cls = "FISTA"
    /\ pc = "FISTA"
    /\ pc' = "FISTA"
    /\ fr'.i = fr.i + 1

\* C20: in iteration i (counting from 1) FISTA computes
\* z = beta_i + ((i-2)/(i+1)) * (beta_i - beta_{i-1}) from the two most
\* recent iterates and then sets beta_{i+1} = prox(z - step*grad(z), step);
\* both iterates start as the start vector, so the first extrapolation
\* point is the start vector itself.
C20_FISTA_extrapolation ==
    [][FISTA_iterated
       => /\ fr'.z = RAdd(fr.betanew,
                          RMul(RDiv(Int2R(fr'.i - 2), Int2R(fr'.i + 1)),
                               RSub(fr.betanew, fr.betaold)))
          /\ fr'.betaold = fr.betanew
          /\ fr'.betanew =
                 prox(function,
                      RSub(fr'.z, RMul(algorithm.step, grad(function, fr'.z))),
                      algorithm.step)
          /\ fr'.i = 1 => fr'.z = beta0 /\ fr'.betaold = beta0]_vars

\* A third iteration whose extrapolation point is not the latest iterate.
C20_witness ==
    /\ algorithm.cls = "FISTA"
    /\ pc = "FISTA"
    /\ fr.i = 3
    /\ fr.z # fr.betaold
    /\ fr.betanew # fr.z

\* C17: in CONESTA the duality-gap estimate G is never negative at any
\* point of a run: a negative computed gap is replaced by its absolute
\* value before it is compared with or stored as G, and before mu_opt(G)
\* is evaluated.
C17_CONESTA_G_not_negative ==
    algorithm.cls = "CONESTA" /\ pc = "CONESTA"
    => /\ RLe(RZero, fr.G)
       /\ \A j \in 1..Len(fr.Gval) : RLe(RZero, fr.Gval[j])

\* A dynamic run whose G is the absolute value of the negative gap.
C17_witness ==
    /\ algorithm.cls = "CONESTA"
    /\ pc = "CONESTA"
    /\ algorithm.dynamic
    /\ fr.runs >= 1
    /\ fr.G = RAbs(<<-1, 16>>)
    /\ <<-1, 16>> \in GapValues

\* One pass of the loop of a CONESTA call was made.
CONESTA_passed ==
    /\ algorithm.cls = "CONESTA"
    /\ pc = "CONESTA"
    /\ pc' = "CONESTA"
    /\ fr'.runs = fr.runs + 1

\* C22 as stated: after each CONESTA outer iteration, in dynamic mode the
\* new estimate is the smaller of the observed gap |gap(beta)| and tau
\* times the previous estimate, G_new = min(|gap(beta)|, tau * G_old); in
\* static mode it is always tau * G_old.
C22_G_is_minimum ==
    [][CONESTA_passed
       => fr'.G = IF algorithm.dynamic
                  THEN RMin(fr'.G_new, RMul(algorithm.tau, fr.G))
                  ELSE RMul(algorithm.tau, fr.G)]_vars

\* C22: after each CONESTA outer iteration, in dynamic mode the new
\* estimate is the observed gap |gap(beta)| when that is smaller than the
\* previous estimate G_old, and tau * G_old otherwise; in static mode it
\* is always tau * G_old.
C22_G_update ==
    [][CONESTA_passed
       => fr'.G = IF algorithm.dynamic /\ RLt(fr'.G_new, fr.G)
                  THEN fr'.G_new
                  ELSE RMul(algorithm.tau, fr.G)]_vars

\* A dynamic pass in output mode that kept an observed gap lying between
\* tau times the estimate recorded before it and that estimate.
C22_witness ==
    /\ algorithm.cls = "CONESTA"
    /\ pc = "CONESTA"
    /\ algorithm.dynamic
    /\ algorithm.output
    /\ Len(fr.Gval) >= 2
    /\ fr.G = fr.G_new
    /\ RLt(fr.G_new, fr.Gval[Len(fr.Gval) - 1])
    /\ RLt(RMul(algorithm.tau, fr.Gval[Len(fr.Gval) - 1]), fr.G_new)

\* C23: every temporary override of mu is undone before control leaves the
\* overriding code: after mu_opt(eps) or eps_opt(mu) returns, after
\* CONESTA's exploratory step at mu_min, and after ExcessiveGapMethod
\* evaluates f at mu = 0 for its trace, get_mu returns the value it had
\* immediately before the override.  (mu_at_run is the mu at the start of
\* a pass, mu_log[j].run the mu after eps_opt and mu_log[j].explored the
\* mu after the exploratory step; mu_at_alpha is the mu of the iteration.)
C23_mu_restored ==
    /\ algorithm.cls = "CONESTA" /\ pc = "CONESTA"
       => /\ fr.runs = 0 => get_mu(function) = fr.mu[1]
          /\ \A j \in 1..Len(fr.mu_log) :
                 /\ fr.mu_log[j].run = fr.mu_at_run[j]
                 /\ fr.mu_log[j].explored = fr.mu_log[j].run
          /\ get_mu(mu_opt(function, fr.G).fn) = get_mu(function)
          /\ get_mu(eps_opt(function, Last(fr.mu)).fn) = get_mu(function)
    /\ algorithm.cls = "ExcessiveGapMethod" /\ pc = "ExcessiveGapMethod"
       /\ fr.iters >= 1
       => h_get_mu(function) = fr.mu_at_alpha

\* A CONESTA call in its second pass, whose exploratory step was made at
\* another mu than the one it restored.
C23_witness ==
    /\ algorithm.cls = "CONESTA"
    /\ pc = "CONESTA"
    /\ Len(fr.mu_log) = 2
    /\ fr.mu_log[2].explored # algorithm.mu_min
    /\ fr.mu_log[2].explored # ROne
    /\ fr.mu_log[2].explored # fr.mu_log[1].explored

\* C24: ExcessiveGapMethod starts with all dual blocks zero and
\* mu_0 = 2*L; iteration k = 0, 1, 2, ... uses tau = 2/(k+3), evaluates the
\* dual point with the objective's mu equal to the scalar mu_k, and sets
\* mu_{k+1} = (1 - tau)*mu_k, so the mu sequence is strictly decreasing and
\* stays positive whenever L > 0.
C24_EGM_mu_sequence ==
    algorithm.cls = "ExcessiveGapMethod" /\ pc = "ExcessiveGapMethod" =>
        /\ fr.mu[1] = RMul(Int2R(2), fr.L)
        /\ fr.iters = 0 => fr.u = Zeros(Len(function.h.A))
        /\ Len(fr.mu) = fr.iters + 1
        /\ fr.iters >= 1 => fr.mu_at_alpha = fr.mu[fr.iters]
        /\ \A j \in 1..fr.iters :
               fr.mu[j + 1] = RMul(RSub(ROne, Rat(2, j + 2)), fr.mu[j])
        /\ RLt(RZero, fr.L) =>
               \A j \in 1..fr.iters :
                   RLt(fr.mu[j + 1], fr.mu[j]) /\ RLt(RZero, fr.mu[j + 1])

\* An ExcessiveGapMethod call with L > 0 that has made three iterations.
C24_witness ==
    /\ algorithm.cls = "ExcessiveGapMethod"
    /\ pc = "ExcessiveGapMethod"
    /\ fr.iters >= 3
    /\ RLt(RZero, fr.L)

\* The stopping test of iteration k = j - 1, on the mu the call recorded.
EGM_stops_at(j) ==
    \/ RLt(RMul(fr.mu[j + 1], h_M(function)), algorithm.eps)
    \/ j - 1 >= algorithm.max_iter

Bisection_halved ==
    /\ algorithm.cls = "Bisection"
    /\ pc \in {"Bisection", "returned"}
    /\ fr.phase \in {"bisect", "done"}
    /\ fr.i >= 1

\* C26: after the bracket is established, Bisection halves it and stops at
\* the first step where |f(mid)| <= eps or the bracket width is at most
\* eps, or after max_iter halvings, and returns the midpoint of the final
\* bracket.
C26_Bisection_stop ==
    Bisection_halved =>
        /\ Bisection_over(algorithm, fr) <=>
               \/ RLe(RAbs(fr.f_mid), algorithm.eps)
               \/ RLe(RAbs(RSub(fr.high, fr.low)), algorithm.eps)
               \/ fr.i >= algorithm.max_iter
        /\ pc = "returned" => result = Bisection_mid(fr.low, fr.high)

\* A step of the first loop of Bisection that moved the ends of the bracket.
Bisection_expanded ==
    /\ pc = "Bisection"
    /\ fr.phase = "expand"
    /\ fr'.phase = "expand"
    /\ fr'.i = fr.i + 1

\* C27: when f has the same sign at both ends of the first bracket (the
\* default bracket [0, 1] included), each expansion step doubles the
\* bracket on both sides: both ends move outwards and the width at least
\* doubles; at most max_iter expansion steps are made, and the expansion
\* stops at the first step where f(low) and f(high) differ in sign.
C27_Bisection_expansion ==
    [][/\ Bisection_expanded =>
              /\ sign(F_f(function, fr.low)) = sign(F_f(function, fr.high))
              /\ fr.i < algorithm.max_iter
              /\ RLt(fr'.low, fr.low)
              /\ RLt(fr.high, fr'.high)
              /\ RLe(RMul(Int2R(2), RSub(fr.high, fr.low)),
                     RSub(fr'.high, fr'.low))
       /\ pc = "Bisection" /\ fr.phase = "expand" /\ fr'.phase = "bisect"
          => \/ sign(F_f(function, fr.low)) # sign(F_f(function, fr.high))
             \/ fr.i >= algorithm.max_iter]_vars

\* C29: at the start of every inner FISTA run inside CONESTA, the
\* objective's current mu equals the last entry of CONESTA's recorded mu
\* schedule and the FISTA step equals 1/L() evaluated at that mu, in both
\* output and non-output mode.
C29_FISTA_run_at_schedule ==
    [][pc = "CONESTA" /\ ~fr.done /\ fr'.runs = fr.runs + 1 =>
           /\ Last(fr'.mu_log).run = Last(fr.mu)
           /\ algorithm'.FISTA.step
                  = RDiv(ROne, L(set_mu(function, Last(fr.mu))))
           /\ Last(fr'.step_at_run) = algorithm'.FISTA.step]_vars

\* A CONESTA call in output mode after its second inner run, which was
\* made at another mu than the first.
C29_witness ==
    /\ algorithm.cls = "CONESTA"
    /\ pc = "CONESTA"
    /\ algorithm.output
    /\ Len(fr.mu_log) = 2
    /\ fr.mu_log[2].run # fr.mu_log[1].run
    /\ fr.step_at_run[2] # fr.step_at_run[1]

\* C21: every mu that CONESTA appends to its schedule and sets on the
\* objective lies in [mu_min, previous mu], where mu_min is the lower bound
\* the algorithm was configured with: the schedule is non-increasing and
\* never goes below the configured mu_min.
C21_CONESTA_mu_clamped ==
    algorithm.cls = "CONESTA" /\ pc = "CONESTA"
    => \A j \in 2..Len(fr.mu) :
           /\ RLe(args.mu_min, fr.mu[j])
           /\ RLe(fr.mu[j], fr.mu[j - 1])

(***************************************************************************)
(* The proximal operators at work.  An operator object is constructed      *)
(* once and then applied, up to MaxRuns times, to vectors of the caller's  *)
(* choice.                                                                 *)
(***************************************************************************)
VecLen == 2
MaxPasses == 3

EntryValues ==
    {<<-4, 1>>, <<-3, 1>>, <<0, 1>>, <<1, 2>>, <<3, 1>>, <<4, 1>>}

Vectors == [1..VecLen -> EntryValues]

\* penalties.L1.__init__
L1_init(a) ==
    [cls |-> "penalties.L1", l |-> a.l, c |-> a.c,
     penalty_start |-> a.penalty_start]

L1Args ==
    [l : {<<0, 1>>, <<1, 1>>, <<7, 2>>}, c : {RZero},
     penalty_start : {0, 1}]

ProxOpArgs ==
    [cls : {"prox_op.L1", "prox_ops.L1"},
     parameter : {<<RZero>>, <<<<1, 5>>, <<1, 1>>>>, <<<<2, 1>>>>}]

L0_by_countArgs ==
    [cls : {"prox_op.L0_by_count", "prox_ops.L0_by_count"},
     parameter : {<<1>>, <<0, 3>>}]

L1_binsearchArgs ==
    [cls : {"prox_op.L1_binsearch", "prox_ops.L1_binsearch"},
     parameter : {<<<<1, 2>>>>, <<<<2, 1>>, <<8, 1>>>>}]

\* penalties.L1.prox
L1_prox_call(beta, factor) ==
    /\ algorithm.cls = "penalties.L1"
    /\ Callable
    /\ beta0' = beta
    /\ fr' = [factor |-> factor]
    /\ result' = L1_prox(algorithm, beta, factor)
    /\ pc' = "returned"
    /\ calls' = {}
    /\ runs' = runs + 1
    /\ UNCHANGED <<algorithm, args, function>>

\* L1.prox of multiblock, up to the loop.
ProxOp_call(x, index, allow_empty) ==
    /\ algorithm.cls \in {"prox_op.L1", "prox_ops.L1"}
    /\ Callable
    /\ index \in 1..Len(algorithm.parameter)
    /\ beta0' = x
    /\ fr' = ProxOp_enter(algorithm, x, index, allow_empty)
    /\ result' = None
    /\ pc' = "prox"
    /\ calls' = {}
    /\ runs' = runs + 1
    /\ UNCHANGED <<algorithm, args, function>>

\* prox_ops.L1.prox called as prox(x) or prox(x, allow_empty=...), up to
\* the loop.
ProxOp_call_default(x, allow_empty) ==
    /\ algorithm.cls = "prox_ops.L1"
    /\ Callable
    /\ Len(algorithm.parameter) = 1
    /\ beta0' = x
    /\ fr' = ProxOp_enter_default(algorithm, x, allow_empty)
    /\ result' = None
    /\ pc' = "prox"
    /\ calls' = {}
    /\ runs' = runs + 1
    /\ UNCHANGED <<algorithm, args, function>>

\* What one pass of the loop leaves.
ProxOp_after_pass(self, b) ==
    IF self.cls \in {"prox_op.L1", "prox_op.L1_binsearch"}
    THEN prox_op_L1_pass(b)
    ELSE prox_ops_L1_pass(b)

\* L1.prox of multiblock: one pass of the loop; an exception it raises
\* ends the call.
ProxOp_pass ==
    /\ pc = "prox"
    /\ ~fr.done
    /\ fr.passes < MaxPasses
    /\ fr' = ProxOp_after_pass(algorithm, fr)
    /\ pc' = IF ProxOp_after_pass(algorithm, fr).error # "" THEN "raised"
             ELSE pc
    /\ result' = IF ProxOp_after_pass(algorithm, fr).error # ""
                 THEN ProxOp_after_pass(algorithm, fr).error
                 ELSE result
    /\ UNCHANGED <<algorithm, args, function, beta0, calls, runs>>

\* L1_binsearch.prox up to the loop.  prox_ops.ProxOp.__init__ sets no
\* normaliser, and prox_ops.L1_binsearch.prox reads self.normaliser[index]
\* when it is called without one.
L1_binsearch_call(x, index) ==
    /\ algorithm.cls \in {"prox_op.L1_binsearch", "prox_ops.L1_binsearch"}
    /\ Callable
    /\ index \in 1..Len(algorithm.parameter)
    /\ beta0' = x
    /\ calls' = {}
    /\ runs' = runs + 1
    /\ IF algorithm.cls = "prox_ops.L1_binsearch"
       THEN /\ fr' = NoFrame
            /\ result' = "AttributeError"
            /\ pc' = "raised"
       ELSE /\ fr' = L1_binsearch_enter(algorithm, x, index)
            /\ result' = IF L1_binsearch_enter(algorithm, x, index).search
                         THEN None ELSE x
            /\ pc' = IF L1_binsearch_enter(algorithm, x, index).search
                     THEN "search" ELSE "returned"
    /\ UNCHANGED <<algorithm, args, function>>

\* L1_binsearch.prox: one iteration of the search, or the end of the
\* search and the entry into the last L1.prox.
L1_binsearch_iterate ==
    /\ pc = "search"
    /\ IF L1_binsearch_searching(fr)
       THEN /\ fr' = L1_binsearch_body(fr)
            /\ pc' = pc
       ELSE /\ fr' = L1_binsearch_final(fr)
            /\ pc' = "prox"
    /\ UNCHANGED <<algorithm, args, function, beta0, result, calls, runs>>

\* L0_by_count.prox.  prox_ops.L0_by_count.prox called without a
\* normaliser reads self.normaliser, which prox_ops.ProxOp.__init__ never
\* sets.
L0_by_count_call(x, index) ==
    /\ algorithm.cls \in {"prox_op.L0_by_count", "prox_ops.L0_by_count"}
    /\ Callable
    /\ index \in 1..Len(algorithm.parameter)
    /\ beta0' = x
    /\ calls' = {}
    /\ runs' = runs + 1
    /\ fr' = [k |-> algorithm.parameter[index]]
    /\ result' = IF algorithm.cls = "prox_ops.L0_by_count"
                 THEN "AttributeError"
                 ELSE L0_by_count_prox(algorithm, x, index)
    /\ pc' = IF algorithm.cls = "prox_ops.L0_by_count"
                \/ IMin(algorithm.parameter[index], Len(x)) = 0
             THEN "raised" ELSE "returned"
    /\ UNCHANGED <<algorithm, args, function>>

\* L1.prox of multiblock: the warning and the return.
ProxOp_return ==
    /\ pc = "prox"
    /\ fr.done
    /\ calls' = IF fr.warn THEN {"warnings.warn"} ELSE {}
    /\ result' = fr.x
    /\ pc' = "returned"
    /\ UNCHANGED <<algorithm, args, function, beta0, fr, runs>>

InitProx ==
    /\ \/ \E a \in L1Args : args = a /\ algorithm = L1_init(a)
       \/ \E a \in ProxOpArgs \cup L1_binsearchArgs :
              args = a /\ algorithm = ProxOp_L1_init(a.cls, a.parameter)
       \/ \E a \in L0_by_countArgs :
              args = a /\ algorithm = ProxOp_L1_init(a.cls, a.parameter)
    /\ function = None
    /\ beta0 = None
    /\ pc = "idle"
    /\ fr = NoFrame
    /\ result = None
    /\ calls = {}
    /\ runs = 0

NextProx ==
    \/ \E beta \in Vectors, factor \in {ROne, <<1, 2>>} :
           L1_prox_call(beta, factor)
    \/ \E x \in Vectors, index \in 1..2, allow_empty \in BOOLEAN :
           ProxOp_call(x, index, allow_empty)
    \/ \E x \in Vectors, allow_empty \in BOOLEAN :
           ProxOp_call_default(x, allow_empty)
    \/ ProxOp_pass
    \/ ProxOp_return
    \/ \E x \in Vectors, index \in 1..2 : L1_binsearch_call(x, index)
    \/ L1_binsearch_iterate
    \/ \E x \in Vectors, index \in 1..2 : L0_by_count_call(x, index)

SpecProx == InitProx /\ [][NextProx]_vars

(***************************************************************************)
(* The penalties as functions.  The object, the vector and the factor are  *)
(* drawn at the start and a method is applied to them once; a              *)
(* CombinedFunction is first given up to MaxAdds functions and penalties,  *)
(* and calls holds the add_function and add_penalty calls made on it.      *)
(***************************************************************************)
\* Bisection.__init__(self, eps, max_iter, min_iter), algorithms.py line
\* 693: TRUE when the keywords given are among its parameters.
Bisection_init_accepts(kwargs) == kwargs \subseteq {"eps", "max_iter", "min_iter"}

\* penalties.L1.feasible
L1_feasible(self, beta) == RLe(norm1(Penalised(self, beta)), self.c)

\* penalties.L1.proj: beta itself when it is feasible; otherwise line 153
\* constructs Bisection(force_negative=True, eps=1e-8), which raises
\* TypeError, so that lines 155-174 are not reached.
L1_proj(self, beta) ==
    IF L1_feasible(self, beta) THEN beta
    ELSE IF ~Bisection_init_accepts({"force_negative", "eps"})
         THEN "TypeError"
         ELSE "unreached"

MaxAdds == 2

PenaltyArgs ==
    [l : {RZero, <<1, 2>>, <<1, 1>>}, c : {RZero, <<2, 1>>},
     penalty_start : 0..VecLen]

Factors == {ROne, <<1, 2>>}

\* The functions and penalties given to a CombinedFunction.
Terms ==
    {L1_init([l |-> ROne, c |-> RZero, penalty_start |-> 0]),
     L2_init([l |-> <<1, 2>>, c |-> ROne, penalty_start |-> 1])}

\* The vectors a CombinedFunction is evaluated at.
CombinedVectors ==
    {[j \in 1..VecLen |-> IF j = 1 THEN v ELSE w] :
        v, w \in {<<-3, 1>>, <<1, 2>>, <<4, 1>>}}

\* penalties.L1.prox
L1_prox_apply ==
    /\ algorithm.cls = "penalties.L1"
    /\ pc = "idle"
    /\ result' = L1_prox(algorithm, beta0, fr.factor)
    /\ fr' = [fr EXCEPT !.op = "prox"]
    /\ pc' = "returned"
    /\ UNCHANGED <<algorithm, args, function, beta0, calls, runs>>

\* penalties.L1.proj
L1_proj_apply ==
    /\ algorithm.cls = "penalties.L1"
    /\ pc = "idle"
    /\ result' = L1_proj(algorithm, beta0)
    /\ fr' = [fr EXCEPT !.op = "proj"]
    /\ pc' = IF L1_feasible(algorithm, beta0) THEN "returned" ELSE "raised"
    /\ UNCHANGED <<algorithm, args, function, beta0, calls, runs>>

\* penalties.L2.prox
L2_prox_apply ==
    /\ algorithm.cls = "penalties.L2"
    /\ pc = "idle"
    /\ result' = L2_prox(algorithm, beta0, fr.factor)
    /\ fr' = [fr EXCEPT !.op = "prox"]
    /\ pc' = "returned"
    /\ UNCHANGED <<algorithm, args, function, beta0, calls, runs>>

\* penalties.ZeroFunction.prox
ZeroFunction_prox_apply ==
    /\ algorithm.cls = "penalties.ZeroFunction"
    /\ pc = "idle"
    /\ result' = ZeroFunction_prox(algorithm, beta0, fr.factor)
    /\ fr' = [fr EXCEPT !.op = "prox"]
    /\ pc' = "returned"
    /\ UNCHANGED <<algorithm, args, function, beta0, calls, runs>>

\* ProxOp.prox of multiblock, called as prox(x, factor).
ProxOp_prox_apply ==
    /\ algorithm.cls = "prox_op.ProxOp"
    /\ pc = "idle"
    /\ result' = ProxOp_prox(algorithm, beta0)
    /\ fr' = [fr EXCEPT !.op = "prox"]
    /\ pc' = "returned"
    /\ UNCHANGED <<algorithm, args, function, beta0, calls, runs>>

\* CombinedFunction.add_function
add_function_call(function_) ==
    /\ algorithm.cls = "CombinedFunction"
    /\ pc = "idle"
    /\ Len(calls) < MaxAdds
    /\ algorithm' = add_function(algorithm, function_)
    /\ calls' = Append(calls, [op |-> "add_function", arg |-> function_,
                               proximal_operator |-> FALSE,
                               raised |-> ~add_function_accepts(function_)])
    /\ UNCHANGED <<args, function, beta0, pc, fr, result, runs>>

\* CombinedFunction.add_penalty
add_penalty_call(penalty, proximal_operator) ==
    /\ algorithm.cls = "CombinedFunction"
    /\ pc = "idle"
    /\ Len(calls) < MaxAdds
    /\ algorithm' = add_penalty(algorithm, penalty, proximal_operator)
    /\ calls' = Append(calls,
                       [op |-> "add_penalty", arg |-> penalty,
                        proximal_operator |-> proximal_operator,
                        raised |-> ~add_penalty_accepts(penalty,
                                                       proximal_operator)])
    /\ UNCHANGED <<args, function, beta0, pc, fr, result, runs>>

\* CombinedFunction.prox
CombinedFunction_prox_apply ==
    /\ algorithm.cls = "CombinedFunction"
    /\ pc = "idle"
    /\ result' = CombinedFunction_prox(algorithm, beta0, fr.factor)
    /\ fr' = [fr EXCEPT !.op = "prox"]
    /\ pc' = "returned"
    /\ UNCHANGED <<algorithm, args, function, beta0, calls, runs>>

\* CombinedFunction.f
CombinedFunction_f_apply ==
    /\ algorithm.cls = "CombinedFunction"
    /\ pc = "idle"
    /\ result' = CombinedFunction_f(algorithm, beta0)
    /\ fr' = [fr EXCEPT !.op = "f"]
    /\ pc' = "returned"
    /\ UNCHANGED <<algorithm, args, function, beta0, calls, runs>>

InitPenalty ==
    /\ \/ \E a \in PenaltyArgs :
              /\ args = a
              /\ algorithm \in {L1_init(a), L2_init(a), ZeroFunction_init(a)}
              /\ beta0 \in Vectors
       \/ /\ args = [cls |-> "prox_op.ProxOp", parameter |-> <<ROne>>]
          /\ algorithm = ProxOp_L1_init("prox_op.ProxOp", <<ROne>>)
          /\ beta0 \in Vectors
       \/ /\ args = None
          /\ algorithm = CombinedFunction_init
          /\ beta0 \in CombinedVectors
    /\ fr \in [factor : Factors, op : {"none"}]
    /\ function = None
    /\ pc = "idle"
    /\ result = None
    /\ calls = <<>>
    /\ runs = 0

NextPenalty ==
    \/ L1_prox_apply
    \/ L1_proj_apply
    \/ L2_prox_apply
    \/ ZeroFunction_prox_apply
    \/ ProxOp_prox_apply
    \/ \E function_ \in Terms : add_function_call(function_)
    \/ \E penalty \in Terms, proximal_operator \in BOOLEAN :
           add_penalty_call(penalty, proximal_operator)
    \/ CombinedFunction_prox_apply
    \/ CombinedFunction_f_apply

SpecPenalty == InitPenalty /\ [][NextPenalty]_vars

(***************************************************************************)
(* The smoothing constant at work.  An RR_L1_TV objective is constructed   *)
(* with a mu, and set_mu, get_mu, alpha, grad and L are called on it in    *)
(* any order; fr holds the method called last, the mu the caller wrote     *)
(* last (mu) and the one written before that (old).                        *)
(***************************************************************************)
MuValues == {<<1, 4>>, <<1, 1>>, <<2, 1>>}

MuObjectives ==
    {RR_L1_TV_init(1, 1, 1, 1, g, <<1>>, mu) : g \in {1, 2}, mu \in MuValues}

\* RR_L1_TV.set_mu
set_mu_call(mu) ==
    /\ pc = "idle"
    /\ runs < MaxRuns
    /\ function' = set_mu(function, mu)
    /\ result' = get_mu(function)
    /\ fr' = [op |-> "set_mu", mu |-> mu, old |-> fr.mu]
    /\ runs' = runs + 1
    /\ UNCHANGED <<algorithm, args, beta0, pc, calls>>

\* RR_L1_TV.get_mu
get_mu_call ==
    /\ pc = "idle"
    /\ result' = get_mu(function)
    /\ fr' = [fr EXCEPT !.op = "get_mu"]
    /\ UNCHANGED <<algorithm, args, function, beta0, pc, calls, runs>>

\* NesterovFunction.alpha on the smoothed part
alpha_call(beta) ==
    /\ pc = "idle"
    /\ beta0' = beta
    /\ result' = alpha(function, beta)
    /\ fr' = [fr EXCEPT !.op = "alpha"]
    /\ UNCHANGED <<algorithm, args, function, pc, calls, runs>>

\* RR_L1_TV.grad
grad_call(beta) ==
    /\ pc = "idle"
    /\ beta0' = beta
    /\ result' = grad(function, beta)
    /\ fr' = [fr EXCEPT !.op = "grad"]
    /\ UNCHANGED <<algorithm, args, function, pc, calls, runs>>

\* RR_L1_TV.L
L_call ==
    /\ pc = "idle"
    /\ result' = L(function)
    /\ fr' = [fr EXCEPT !.op = "L"]
    /\ UNCHANGED <<algorithm, args, function, beta0, pc, calls, runs>>

InitMu ==
    /\ function \in MuObjectives
    /\ fr = [op |-> "__init__", mu |-> function.mu, old |-> function.mu]
    /\ algorithm = None
    /\ args = None
    /\ beta0 = None
    /\ pc = "idle"
    /\ result = None
    /\ calls = {}
    /\ runs = 0

NextMu ==
    \/ \E mu \in MuValues : set_mu_call(mu)
    \/ get_mu_call
    \/ \E beta \in StartVectors : alpha_call(beta)
    \/ \E beta \in StartVectors : grad_call(beta)
    \/ L_call

SpecMu == InitMu /\ [][NextMu]_vars

(***************************************************************************)
(* Properties of the proximal operators.                                   *)
(***************************************************************************)
\* sign(x) * max(|x| - t, 0)
SoftThreshold(x, t) == RMul(Int2R(sign(x)), RMax(RSub(RAbs(x), t), RZero))

\* The threshold of the call and its first penalised entry.
Threshold ==
    IF algorithm.cls = "penalties.L1" THEN RMul(algorithm.l, fr.factor)
    ELSE IF fr.index = 0 THEN fr.lorig[1] ELSE fr.lorig

FirstPenalised ==
    IF algorithm.cls = "penalties.L1" THEN algorithm.penalty_start + 1 ELSE 1

\* C10: an L1 soft-threshold operator (penalties.L1.prox with t = l *
\* factor, L1.prox of multiblock when it returns from its first pass)
\* returns on every penalised entry i exactly sign(x_i) * max(|x_i| - t, 0)
\* of the input x.
C10_soft_threshold ==
    /\ algorithm.cls \in {"penalties.L1", "prox_op.L1", "prox_ops.L1"}
    /\ pc = "returned"
    /\ algorithm.cls # "penalties.L1" => fr.passes = 1
    => \A j \in FirstPenalised..Len(beta0) :
           result[j] = SoftThreshold(beta0[j], Threshold)

\* A vector no reduced threshold can rescue: every entry is zero or nan.
Purged(x) == \A j \in 1..Len(x) : x[j] = RZero \/ x[j] = NaN

\* A call of L1.prox of multiblock is in its loop and a retry is due.
InRetryLoop ==
    /\ algorithm.cls \in {"prox_op.L1", "prox_ops.L1"}
    /\ pc = "prox"
    /\ fr.passes >= 1
    /\ ~fr.done

\* C11: when soft-thresholding purges every entry and an empty result is
\* disallowed, the retry loop terminates for every input: every retry
\* applies the reduced threshold to the original input, and the vector a
\* retry thresholds has an entry that a small enough threshold keeps.
C11_retry_loop_terminates ==
    InRetryLoop /\ ~fr.allow_empty
    => /\ fr.xorig = beta0
       /\ ~Purged(IF algorithm.cls = "prox_op.L1" THEN Normalised(fr.xorig)
                  ELSE fr.xorig)

\* C12: a soft-threshold call emits the "threshold too large" warning if
\* and only if the threshold was shrunk during the call, and a call that
\* shrank its threshold returns a result: it raises no exception.
C12_warning_iff_shrinkage ==
    /\ algorithm.cls \in {"prox_op.L1", "prox_ops.L1"}
       /\ pc = "returned"
       => ("warnings.warn" \in calls <=> fr.passes > 1)
    /\ algorithm.cls \in {"prox_op.L1", "prox_ops.L1"}
       /\ pc = "raised"
       => ~fr.warn

\* |a - b| < TOLERANCE for two norms, neither of them nan.
Within(a, b) == a # NaN /\ b # NaN /\ RLt(RAbs(RSub(a, b)), TOLERANCE)

\* C13: after L1_binsearch.prox with target s on an input vector x, the L1
\* norm of the returned vector differs from min(s, ||x||_1) by less than
\* TOLERANCE.
C13_norm_target ==
    algorithm.cls = "prox_op.L1_binsearch" /\ pc = "returned"
    => Within(norm1(result), RMin(fr.s, norm1(beta0)))

\* The positions of the k entries of largest magnitude of x, a tie going
\* to the lower index: fewer than k entries come before position j.
Largest(x, k) ==
    {j \in 1..Len(x) :
        Cardinality({i \in 1..Len(x) :
                        \/ RLt(RAbs(x[j]), RAbs(x[i]))
                        \/ RAbs(x[i]) = RAbs(x[j]) /\ i < j}) < k}

NonZero(x) == {j \in 1..Len(x) : x[j] # RZero}

\* C14: after L0_by_count.prox with target k on a vector of length p,
\* exactly min(k, p) entries are nonzero and they are the k entries of
\* largest magnitude of the input, ties being resolved in favour of the
\* first-encountered index; all other entries are zero.
C14_keeps_k_largest ==
    algorithm.cls = "prox_op.L0_by_count" /\ pc = "returned"
    => /\ Cardinality(NonZero(result)) = IMin(fr.k, Len(beta0))
       /\ NonZero(result) = Largest(beta0, fr.k)

\* C15: for every penalty proximal operator with penalty_start = s (L1.prox,
\* L2.prox, ZeroFunction.prox) and every input beta and factor, the first
\* s entries of the result equal the first s entries of beta and the
\* result has the same length as beta.
C15_excepted_entries_kept ==
    /\ algorithm.cls \in {"penalties.L1", "penalties.L2",
                          "penalties.ZeroFunction"}
    /\ pc = "returned"
    => /\ Len(result) = Len(beta0)
       /\ \A j \in 1..Len(beta0) :
              j <= algorithm.penalty_start => result[j] = beta0[j]

\* An L2.prox that kept an excepted entry and shrank a penalised one.
C15_witness ==
    /\ algorithm.cls = "penalties.L2"
    /\ pc = "returned"
    /\ algorithm.penalty_start = 1
    /\ beta0[1] # RZero
    /\ result[1] = beta0[1]
    /\ result[2] # beta0[2]

\* The objective as it would be with the smoothing constant m.
WithMu(m) == [function EXCEPT !.mu = m]

\* C16: the smoothing constant is a single last-write-wins cell: set_mu(m)
\* returns the value that was stored immediately before the call, and
\* every later get_mu, alpha, grad and L evaluation uses m until the next
\* set_mu.
C16_mu_last_write_wins ==
    /\ fr.op = "set_mu" => result = fr.old
    /\ fr.op = "get_mu" => result = fr.mu
    /\ fr.op = "alpha" => result = alpha(WithMu(fr.mu), beta0)
    /\ fr.op = "grad" => result = grad(WithMu(fr.mu), beta0)
    /\ fr.op = "L" => result = L(WithMu(fr.mu))

\* An alpha evaluated after a second set_mu, which the mu written before
\* would have given another value.
C16_witness ==
    /\ fr.op = "alpha"
    /\ runs = MaxRuns
    /\ fr.mu # fr.old
    /\ result # alpha(WithMu(fr.old), beta0)

\* The add_penalty calls that gave the CombinedFunction a proximal
\* operator, by their place in calls.
ProxAdds ==
    {j \in 1..Len(calls) :
        /\ calls[j].op = "add_penalty"
        /\ calls[j].proximal_operator
        /\ ~calls[j].raised}

\* The calls that gave it a function or a penalty with a gradient.
SmoothAdds ==
    {j \in 1..Len(calls) : ~calls[j].proximal_operator /\ ~calls[j].raised}

LastProxAdd == CHOOSE j \in ProxAdds : \A i \in ProxAdds : i <= j

\* The proximal operator of the penalty p at x.
ProxOf(p, x, factor) ==
    CASE p.cls = "penalties.L1" -> L1_prox(p, x, factor)
      [] p.cls = "penalties.L2" -> L2_prox(p, x, factor)
      [] p.cls = "penalties.ZeroFunction" -> x

\* The sum of the values at x of the terms that the calls in S added.
ValueOf(S, op, x) ==
    SumSeq([j \in 1..Len(calls) |->
               IF j \in S /\ calls[j].op = op
               THEN Penalty_f(calls[j].arg, x) ELSE RZero])

\* C18: a CombinedFunction holds at most one proximal term at any time:
\* after any sequence of add_function / add_penalty calls, prox() applies
\* exactly the most recently added proximal operator, or the identity if
\* none was added, and an earlier, replaced proximal operator contributes
\* to neither prox() nor f().
C18_one_proximal_term ==
    algorithm.cls = "CombinedFunction" /\ pc = "returned"
    => /\ fr.op = "prox"
          => result = IF ProxAdds = {} THEN beta0
                      ELSE ProxOf(calls[LastProxAdd].arg, beta0, fr.factor)
       /\ fr.op = "f"
          => result =
                 RAdd(RAdd(ValueOf(SmoothAdds, "add_function", beta0),
                           ValueOf(SmoothAdds, "add_penalty", beta0)),
                      IF ProxAdds = {} THEN RZero
                      ELSE Penalty_f(calls[LastProxAdd].arg, beta0))

\* A prox() after one proximal operator replaced another that would have
\* given another vector.
C18_witness ==
    /\ algorithm.cls = "CombinedFunction"
    /\ pc = "returned"
    /\ fr.op = "prox"
    /\ ProxAdds = {1, 2}
    /\ calls[1].arg # calls[2].arg
    /\ result # ProxOf(calls[1].arg, beta0, fr.factor)
    /\ result # beta0

\* The object is an identity proximal operator.
IdentityOperator ==
    \/ algorithm.cls \in {"penalties.ZeroFunction", "prox_op.ProxOp"}
    \/ algorithm.cls = "CombinedFunction" /\ ProxAdds = {}

\* The operator applied once more, to x.
ProxAgain(x, factor) ==
    CASE algorithm.cls = "penalties.ZeroFunction" ->
            ZeroFunction_prox(algorithm, x, factor)
      [] algorithm.cls = "prox_op.ProxOp" -> ProxOp_prox(algorithm, x)
      [] algorithm.cls = "CombinedFunction" ->
            CombinedFunction_prox(algorithm, x, factor)

\* C19: the identity proximal operator (ZeroFunction.prox, the multiblock
\* ProxOp.prox, and CombinedFunction.prox when no proximal operator was
\* added) returns its input unchanged for every factor, so applying it
\* twice returns the original vector exactly.
C19_identity_prox ==
    pc = "returned" /\ fr.op = "prox" /\ IdentityOperator
    => /\ result = beta0
       /\ \A factor \in Factors : ProxAgain(result, factor) = beta0

\* A CombinedFunction that was given terms but no proximal operator,
\* applied with a factor other than one.
C19_witness ==
    /\ pc = "returned"
    /\ fr.op = "prox"
    /\ algorithm.cls = "CombinedFunction"
    /\ Len(calls) >= 1
    /\ ProxAdds = {}
    /\ fr.factor # ROne
    /\ beta0[1] # RZero

\* C30: penalties.L1.proj returns a vector of the same length as its input
\* whose first penalty_start entries equal the input's, both when the
\* input is already feasible and when it has to be projected.
C30_proj_keeps_excepted ==
    algorithm.cls = "penalties.L1" /\ fr.op = "proj" =>
        /\ pc = "returned"
        /\ Len(result) = Len(beta0)
        /\ \A j \in 1..Len(beta0) :
               j <= algorithm.penalty_start => result[j] = beta0[j]

(***************************************************************************)
(* The cached quantities of an RR_L1_TV objective: X'y and the Woodbury    *)
(* factor of betahat, and lambda_max of the smoothed part.  The objective  *)
(* is the record of RR_L1_TV_init with the fields _Xty, _invXXkI,          *)
(* _XtinvXXtkI and _lambda_max; X is 1 x 1, so betahat takes the branch    *)
(* "p >= n" of line 399.                                                   *)
(***************************************************************************)
\* RR_L1_TV.reset and GroupLassoOverlap.reset: every cache is None.
RR_L1_TV_reset(fn) ==
    [_Xty |-> None, _invXXkI |-> None, _XtinvXXtkI |-> None,
     _lambda_max |-> None] @@ fn

\* RR_L1_TV.__init__, which ends with self.reset().
RR_L1_TV_new(X, y, k, l, g, A, mu) ==
    RR_L1_TV_reset(RR_L1_TV_init(X, y, k, l, g, A, mu))

\* GroupLassoOverlap.lambda_max, lines 125-135: the value and the objective
\* with the cache filled.
lambda_max_cached(fn) ==
    IF fn._lambda_max = None
    THEN [val |-> lambda_max(fn),
          fn |-> [fn EXCEPT !._lambda_max = lambda_max(fn)]]
    ELSE [val |-> fn._lambda_max, fn |-> fn]

\* RR_L1_TV.L with GroupLassoOverlap.L reading lambda_max through its cache.
L_cached(fn) ==
    IF RLt(Int2R(fn.g), TOLERANCE) THEN [val |-> rr_L(fn), fn |-> fn]
    ELSE [val |-> RAdd(rr_L(fn),
                       RDiv(RMul(Int2R(fn.g), lambda_max_cached(fn).val),
                            fn.mu)),
          fn |-> lambda_max_cached(fn).fn]

\* RR_L1_TV.betahat, lines 379-380 and 401-406: the caches after the call.
betahat_fill(fn) ==
    [fn EXCEPT !._Xty = IF fn._Xty = None THEN Int2R(fn.X * fn.y)
                        ELSE fn._Xty,
               !._XtinvXXtkI = IF fn._XtinvXXtkI = None
                               THEN Rat(fn.X, fn.X * fn.X + fn.k)
                               ELSE fn._XtinvXXtkI]

\* RR_L1_TV.betahat, lines 382-384 and 408-411, on the filled caches.
betahat_of(fn, alphak, betak) ==
    LET v == RSub(RSub(fn._Xty, RMul(Int2R(fn.g), Aa(fn, alphak))),
                  RMul(Int2R(fn.l), project(RDiv(betak, TOLERANCE))))
    IN  RDiv(RSub(v, RMul(fn._XtinvXXtkI, RMul(Int2R(fn.X), v))),
             Int2R(fn.k))

\* RR_L1_TV.betahat: the value and the objective with the caches filled.
betahat(fn, alphak, betak) ==
    [val |-> betahat_of(betahat_fill(fn), alphak, betak),
     fn |-> betahat_fill(fn)]

\* RR_L1_TV.set_params, lines 233-238: mu goes through set_mu, every other
\* keyword becomes an attribute of the objective.
set_params(fn, name, value) ==
    IF name = "mu" THEN set_mu(fn, value)
    ELSE [set_mu(fn, get_mu(fn)) EXCEPT ![name] = value]

CacheObjectives ==
    {RR_L1_TV_new(X, 1, 1, 0, g, <<a>>, mu) :
         X \in {1, 2}, g \in {0, 1}, a \in {1, 2}, mu \in {<<1, 2>>, <<1, 1>>}}

DualValues == {<<-1, 1>>, <<1, 2>>}

\* The structural parameters a caller replaces and the values given.
StructuralValues ==
    {<<"X", 1>>, <<"X", 2>>, <<"y", 1>>, <<"y", 3>>}

\* function.betahat(alphak, betak)
betahat_call(alphak, betak) ==
    /\ pc = "idle"
    /\ beta0' = <<alphak, betak>>
    /\ result' = betahat(function, alphak, betak).val
    /\ function' = betahat(function, alphak, betak).fn
    /\ fr' = [op |-> "betahat", before |-> function]
    /\ UNCHANGED <<algorithm, args, pc, calls, runs>>

\* function.L()
L_cached_call ==
    /\ pc = "idle"
    /\ result' = L_cached(function).val
    /\ function' = L_cached(function).fn
    /\ fr' = [op |-> "L", before |-> function]
    /\ UNCHANGED <<algorithm, args, beta0, pc, calls, runs>>

\* function.tv.lambda_max()
lambda_max_call ==
    /\ pc = "idle"
    /\ result' = lambda_max_cached(function).val
    /\ function' = lambda_max_cached(function).fn
    /\ fr' = [op |-> "lambda_max", before |-> function]
    /\ UNCHANGED <<algorithm, args, beta0, pc, calls, runs>>

\* function.set_params(mu=mu)
set_params_mu_call(mu) ==
    /\ pc = "idle"
    /\ runs < MaxRuns
    /\ function' = set_params(function, "mu", mu)
    /\ result' = None
    /\ fr' = [op |-> "set_mu", before |-> function]
    /\ runs' = runs + 1
    /\ UNCHANGED <<algorithm, args, beta0, pc, calls>>

\* function.set_params(X=X) and function.set_params(y=y)
set_params_call(name, value) ==
    /\ pc = "idle"
    /\ runs < MaxRuns
    /\ function[name] # value
    /\ function' = set_params(function, name, value)
    /\ result' = None
    /\ fr' = [op |-> "set_params", before |-> function]
    /\ runs' = runs + 1
    /\ UNCHANGED <<algorithm, args, beta0, pc, calls>>

\* function.reset()
reset_call ==
    /\ pc = "idle"
    /\ function # RR_L1_TV_reset(function)
    /\ function' = RR_L1_TV_reset(function)
    /\ result' = None
    /\ fr' = [op |-> "reset", before |-> function]
    /\ UNCHANGED <<algorithm, args, beta0, pc, calls, runs>>

InitCache ==
    /\ function \in CacheObjectives
    /\ fr = [op |-> "__init__", before |-> function]
    /\ algorithm = None
    /\ args = None
    /\ beta0 = None
    /\ pc = "idle"
    /\ result = None
    /\ calls = {}
    /\ runs = 0

NextCache ==
    \/ \E alphak \in DualValues : betahat_call(alphak, ROne)
    \/ L_cached_call
    \/ lambda_max_call
    \/ \E mu \in MuValues : set_params_mu_call(mu)
    \/ \E p \in StructuralValues : set_params_call(p[1], p[2])
    \/ reset_call

SpecCache == InitCache /\ [][NextCache]_vars

\* The caches of an objective.
CachesOf(fn) ==
    <<fn._Xty, fn._invXXkI, fn._XtinvXXtkI, fn._lambda_max>>

\* C28: the cached quantities of an objective (X'y, the Woodbury factor of
\* betahat, lambda_max) are invalidated whenever X or y changes, so a
\* later betahat, L or lambda_max call returns the value computed from the
\* current parameters; changing mu alone leaves the caches as they are.
C28_caches_follow_parameters ==
    /\ fr.op = "betahat" =>
           result = betahat(RR_L1_TV_reset(function), beta0[1], beta0[2]).val
    /\ fr.op = "L" => result = L_cached(RR_L1_TV_reset(function)).val
    /\ fr.op = "lambda_max" =>
           result = lambda_max_cached(RR_L1_TV_reset(function)).val
    /\ fr.op = "set_params" =>
           CachesOf(function) = CachesOf(RR_L1_TV_reset(function))
    /\ fr.op = "set_mu" => CachesOf(function) = CachesOf(fr.before)

====
